---- MODULE Spec2Model ----
(***************************************************************************)
(* VoiceTrans: the audio segmentation and dispatch pipeline of             *)
(* FireworksVoiceTranslator (src/voicetrans/app.py).                       *)
(*                                                                         *)
(*   process_audio            the capture/segmentation thread              *)
(*   adjust_sensitivity       profile selection, run on the UI thread      *)
(*   transcribe_with_fireworks  one pipeline thread per emitted utterance  *)
(*   _translate_text          run on the ThreadPoolExecutor                *)
(*                                                                         *)
(* and the service layer of the web backend (src/web_app/backend/services): *)
(*                                                                         *)
(*   TranscriptionService.transcribe_audio   cache, provider call, retry   *)
(*   TranslationService.detect_language / translate_text / process_parallel*)
(*   StreamingService.process_audio_chunk    the pipeline of one chunk     *)
(*                                                                         *)
(* A frame is identified by its position in the capture stream (1, 2, ..). *)
(* Durations are compared in integers: n chunks of chunk_size samples last *)
(* n * chunk_size / sample_rate seconds.                                   *)
(***************************************************************************)
EXTENDS Integers, Sequences, FiniteSets, TLC

\* ------------------------------------------------------------------ constants
sample_rate == 16000
chunk_size == 480
max_workers == 3
history_maxlen == 100
baseline_latency == 3
\* settings.max_retries, the attempts of a retried service function
max_retries == 3
\* settings.cache_ttl, the seconds a cache entry is served
cache_ttl == 3600
\* the number of entries _cache_transcription and _cache_translation keep
cache_limit == 1000
\* settings.websocket_heartbeat_interval, in seconds
websocket_heartbeat_interval == 30

\* ------------------------------------------------------------------ bounds
\* number of speech/silence runs the frame source delivers
MaxRuns == 3
\* number of sensitivity keys the user presses
MaxAdjusts == 1
\* number of frames the capture thread processes while one call of
\* adjust_sensitivity is in progress on the UI thread
MaxOverlap == 2
\* number of 'l' and 'c' keys the user presses
MaxKeys == 2
\* number of reads of the capture stream that raise
MaxReadErrors == 2
\* number of calls of the service layer
MaxCalls == 2
\* number of times the user presses the space key
MaxPauses == 2
\* number of stores into a cache, of lookups, and of advances of the clock
MaxStores == 2
MaxLookups == 1
MaxTicks == 1
\* number of messages the clients of StreamingService send
MaxMessages == 2

\* the pipeline invocations that are followed step by step
ThreadIds == {1, 2}

\* lengths of the runs of speech frames / silence frames the source delivers
SpeechRunLengths == {1, 5, 12, 240}
SilenceRunLengths == {1, 30, 36}

\* amplitude (mean |sample| / 32768, in thousandths) of a frame of each kind
FrameLevel == [speech |-> 50, silence |-> 0]

\* the runs of an utterance delivered while the pipeline threads are followed
UtteranceSpeech == {5}
UtteranceSilence == {26}

\* bursts of speech separated by pauses shorter than the silence threshold
BurstLengths == {30}
PauseLengths == {10, 25}

\* word counts of a transcription, and wall-clock latencies of an invocation
WordCounts == {2}
Latencies == {1}

Modes == {"Hyper-Speed", "Ultra-Fast", "Balanced", "Accurate"}

\* the codes of LANGUAGES the user enters
Languages == {"zh", "es"}
SensitivityKeys == {"+", "-", "=", "0"}

VARIABLES
    \* sensitivity profile fields of the translator object
    silence_threshold, min_speech_chunks, max_recording_duration,
    speech_timeout, sensitivity_mode, vad_level,
    \* locals of process_audio
    frames, silent_chunks, speech_chunks, recording_chunks,
    \* self.is_speaking
    is_speaking,
    \* the position of process_audio in its loop: "top" (at the while test),
    \* "read" (inside the iteration, in stream.read), "sleep" (inside the
    \* iteration, in time.sleep of the paused branch), "stopped" (loop left)
    capture,
    \* the capture stream: the run being delivered and the frames read so far
    src, framesRead,
    \* run-length history of the classifications process_audio computed
    fed,
    \* the UI thread: the key being handled and the position inside its handler
    ui,
    \* the pipeline threads started so far, in start order
    threads,
    \* the last close of an utterance by process_audio
    lastClose,
    \* self.fireworks_client / self.openai_client are set (not None)
    fireworks_client, openai_client,
    \* self.target_lang, self.is_processing, self.stats, self.history
    target_lang, is_processing, stats, history,
    \* self.is_running, self.is_recording
    is_running, is_recording,
    \* the work queue and futures of self.executor, in submission order
    jobs,
    \* the service layer: which clients are set and settings.enable_translation_cache
    svcConfig,
    \* TranscriptionService.cache and TranslationService.cache
    transcription_cache, translation_cache,
    \* the stats dictionaries of the three services
    svcStats,
    \* the service call in progress, and the calls that have returned, in order
    call, done,
    \* self.cache of the two services with the timestamps of the entries, in
    \* dict order; the reading of datetime.now(); the cache operations made
    caches, now, cacheLog,
    \* StreamingService: self.active_connections (its keys),
    \* self.connection_metadata, self.stats, and for every client the tasks
    \* of its connection
    active_connections, connection_metadata, stream_stats, conn,
    \* websocket_translate of main_realtime.py: its locals, the chunks the
    \* client sends, and the chunks and calls so far
    rt, rtSrc, rtLog

profVars == <<silence_threshold, min_speech_chunks, max_recording_duration,
              speech_timeout, sensitivity_mode, vad_level>>
segVars == <<frames, silent_chunks, speech_chunks, recording_chunks, is_speaking,
             capture>>
srcVars == <<src, framesRead, fed>>
cfgVars == <<fireworks_client, openai_client, target_lang, is_running, is_recording>>
pipeVars == <<is_processing, stats, history, jobs>>
svcVars == <<svcConfig, transcription_cache, translation_cache, svcStats, call, done>>
appVars == <<profVars, segVars, srcVars, ui, threads, lastClose, cfgVars, pipeVars>>
cacheVars == <<caches, now, cacheLog>>
connVars == <<active_connections, connection_metadata, stream_stats, conn>>
rtVars == <<rt, rtSrc, rtLog>>
webVars == <<cacheVars, connVars, rtVars>>
vars == <<appVars, svcVars, webVars>>

\* ------------------------------------------------------------------ profiles
\* profiles in which Balanced closes on a shorter silence than Ultra-Fast
ProfileOfUnordered(key) ==
    CASE key = "+" -> [silence_threshold |-> 15, min_speech_chunks |-> 8,
                       max_recording_duration |-> 3, speech_timeout |-> 65,
                       sensitivity_mode |-> "Hyper-Speed", vad_level |-> 1]
      [] key = "-" -> [silence_threshold |-> 35, min_speech_chunks |-> 15,
                       max_recording_duration |-> 7, speech_timeout |-> 165,
                       sensitivity_mode |-> "Accurate", vad_level |-> 3]
      [] key = "=" -> [silence_threshold |-> 20, min_speech_chunks |-> 10,
                       max_recording_duration |-> 4, speech_timeout |-> 100,
                       sensitivity_mode |-> "Ultra-Fast", vad_level |-> 2]
      [] key = "0" -> [silence_threshold |-> 18, min_speech_chunks |-> 10,
                       max_recording_duration |-> 5, speech_timeout |-> 100,
                       sensitivity_mode |-> "Balanced", vad_level |-> 2]

\* profiles in which Hyper-Speed closes after 5 frames of silence
ProfileOfShortSilence(key) ==
    CASE key = "+" -> [silence_threshold |-> 5, min_speech_chunks |-> 8,
                       max_recording_duration |-> 3, speech_timeout |-> 65,
                       sensitivity_mode |-> "Hyper-Speed", vad_level |-> 1]
      [] key = "-" -> [silence_threshold |-> 35, min_speech_chunks |-> 15,
                       max_recording_duration |-> 7, speech_timeout |-> 165,
                       sensitivity_mode |-> "Accurate", vad_level |-> 3]
      [] key = "=" -> [silence_threshold |-> 20, min_speech_chunks |-> 10,
                       max_recording_duration |-> 4, speech_timeout |-> 100,
                       sensitivity_mode |-> "Ultra-Fast", vad_level |-> 2]
      [] key = "0" -> [silence_threshold |-> 25, min_speech_chunks |-> 10,
                       max_recording_duration |-> 5, speech_timeout |-> 100,
                       sensitivity_mode |-> "Balanced", vad_level |-> 2]

\* the assignments of adjust_sensitivity, in program order
ProfileOf(key) ==
    CASE key = "+" -> [silence_threshold |-> 15, min_speech_chunks |-> 8,
                       max_recording_duration |-> 3, speech_timeout |-> 65,
                       sensitivity_mode |-> "Hyper-Speed", vad_level |-> 1]
      [] key = "-" -> [silence_threshold |-> 35, min_speech_chunks |-> 15,
                       max_recording_duration |-> 7, speech_timeout |-> 165,
                       sensitivity_mode |-> "Accurate", vad_level |-> 3]
      [] key = "=" -> [silence_threshold |-> 20, min_speech_chunks |-> 10,
                       max_recording_duration |-> 4, speech_timeout |-> 100,
                       sensitivity_mode |-> "Ultra-Fast", vad_level |-> 2]
      [] key = "0" -> [silence_threshold |-> 25, min_speech_chunks |-> 10,
                       max_recording_duration |-> 5, speech_timeout |-> 100,
                       sensitivity_mode |-> "Balanced", vad_level |-> 2]

\* the values __init__ sets
InitialProfile ==
    [silence_threshold |-> 25, min_speech_chunks |-> 10,
     max_recording_duration |-> 5, speech_timeout |-> 100, vad_level |-> 2]

\* the amplitude floor process_audio looks up by sensitivity_mode (thousandths)
amplitude_threshold(mode) ==
    CASE mode = "Hyper-Speed" -> 3
      [] mode = "Ultra-Fast" -> 5
      [] mode = "Balanced" -> 8
      [] mode = "Accurate" -> 10
      [] OTHER -> 8

\* float('inf'), the initial min_latency
Infinity == 1000000

\* ------------------------------------------------------------------ helpers
\* recording_chunks * chunk_size / sample_rate > max_recording_duration
OverMaxDuration(chunks, maxSeconds) ==
    chunks * chunk_size > maxSeconds * sample_rate

\* a timeout that fires one frame late
SpeechTimedOutLate(chunks, timeout) == chunks > timeout

\* speech_chunks >= speech_timeout
SpeechTimedOut(chunks, timeout) == chunks >= timeout

\* a silence threshold that fires one frame early
SilenceExceededEarly(chunks, threshold) == chunks >= threshold

\* silent_chunks > silence_threshold
SilenceExceeded(chunks, threshold) == chunks > threshold

\* a length check with the comparison turned around
EnoughFramesInverted(buf, minChunks) == Len(buf) < minChunks

\* len(frames) > min_speech_chunks
EnoughFrames(buf, minChunks) == Len(buf) > minChunks

\* a minimum duration of a whole second
TooShortBelowOneSecond(buf) == Len(buf) * chunk_size < sample_rate

\* duration = len(frames) * chunk_size / sample_rate; duration < 0.5
TooShort(buf) == 2 * Len(buf) * chunk_size < sample_rate

\* self.stats['total_audio_duration'] += duration (in samples)
AddAudioDuration(st, buf) ==
    [st EXCEPT !.total_audio_duration = @ + Len(buf) * chunk_size]

\* threading.Thread(target=transcribe_with_fireworks, args=(audio_data,)).start()
NoText == [none |-> TRUE]

\* the language of a translation request that has not been built yet
NoLang == "none"

\* text = transcription.text.strip() of a response without speech: ""
EmptyText == [empty |-> TRUE]

\* an invocation of transcribe_with_fireworks at its entry; lang records the
\* target language of the moment it was started, requests counts the calls of
\* audio.transcriptions.create it has made
NewThread(audio_data, who) ==
    [pc |-> "start", audio |-> audio_data, origin |-> who,
     text |-> NoText, words |-> 0, translated |-> NoText, latency |-> 0,
     tmp |-> 0, job |-> 0, lang |-> target_lang, requests |-> 0]

\* a buffer that is kept after its close
ReusedBuffer(old) == old

\* frames = []: a new list, whatever the closed one held
NewBuffer(old) == <<>>

\* a direct call of transcribe_with_fireworks, which returns when it is done
StartThreadAndWait(ts, audio_data) ==
    Append(ts, [pc |-> "done", audio |-> audio_data, origin |-> "segmenter"])

\* a close that starts no thread
StartNoThread(ts, audio_data) == ts

StartThread(ts, audio_data) == Append(ts, NewThread(audio_data, "segmenter"))

\* the run-length history with one more classification
Feed(h, sp) ==
    IF h # <<>> /\ h[Len(h)][1] = sp
    THEN [h EXCEPT ![Len(h)] = <<sp, h[Len(h)][2] + 1>>]
    ELSE Append(h, <<sp, 1>>)

\* ------------------------------------------------------------------ initial state
InitialStats ==
    [total_translations |-> 0, total_words |-> 0, avg_latency |-> <<0, 1>>,
     total_latency |-> 0, peak_latency |-> 0, min_latency |-> Infinity,
     api_calls |-> 0, api_errors |-> 0, total_audio_duration |-> 0,
     fireworks_savings |-> 0, processing_speed |-> <<0, 1>>, languages_used |-> {}]

\* ------------------------------------------------------------------ service layer: values
\* None as a language
NoLanguage == "None"

\* codes of TranslationService.LANGUAGES
ServiceLanguages == {"zh", "en"}

\* audio chunks a client sends; detect_voice_activity finds voice in one of them
Audios == {"voice", "hum"}
HasVoice(audio_data) == audio_data = "voice"

\* transcription.strip() of a provider response: a text, or the empty string
Transcripts == {<<"hola">>, <<>>}

\* response.text.strip() of a translation request
GeminiTranslation(text, target) == Append(text, target)

\* the exceptions of the transcription request: the two that are retried, an
\* APIError of another kind, any other exception
Retryable == {"APIConnectionError", "RateLimitError"}
TranscribeErrors == Retryable \cup {"APIError", "Exception"}

\* provider requests sent during a call
ZeroSent == [transcribe |-> 0, detect |-> 0, translate |-> 0]

\* what a call hands to its caller
NoResult == [kind |-> "pending"]
NoneResult(error) == [kind |-> "None", error |-> error]
Raised(error) == [kind |-> "raised", error |-> error]
Returned(value, was_cached) ==
    [kind |-> "returned", value |-> value, was_cached |-> was_cached]
Response(transcription, translation, detected_lang, target_language) ==
    [kind |-> "TranslationResponse", transcription |-> transcription,
     translation |-> translation, source_language |-> detected_lang,
     target_language |-> target_language]

\* no service call is in progress. Of a call: attempts counts the failed
\* attempts of the retried function it is in, errors lists the exceptions the
\* attempts of transcribe_audio raised, sent counts its provider requests, warm
\* says that it began with both caches unexpired and its audio transcribed
IdleCall ==
    [op |-> "none", pc |-> "idle", audio |-> "none", target |-> NoLanguage,
     text |-> <<>>, source |-> NoLanguage, detected |-> NoLanguage,
     attempts |-> 0, errors |-> <<>>, warm |-> FALSE, sent |-> ZeroSent,
     result |-> NoResult]

ZeroServiceStats ==
    [transcription |-> [total_requests |-> 0, successful_requests |-> 0,
                        failed_requests |-> 0, cache_hits |-> 0, cache_misses |-> 0],
     translation |-> [total_requests |-> 0, successful_requests |-> 0,
                      failed_requests |-> 0, cache_hits |-> 0, cache_misses |-> 0,
                      skipped_same_language |-> 0],
     total_errors |-> 0]

\* both clients initialized, caching enabled (the default of the settings)
DefaultServices ==
    [transcription_client |-> TRUE, translation_client |-> TRUE,
     enable_translation_cache |-> TRUE]

\* the two services that keep a cache
Services == {"transcription", "translation"}

\* the client ids of the connections StreamingService accepts
Clients == {"a", "b"}

\* the caches hold the given entries at the given time
CacheInit(entries, time) ==
    /\ caches = entries
    /\ now = time
    /\ cacheLog = [stores |-> 0, lookups |-> 0, ticks |-> 0,
                   last |-> [op |-> "none"]]

\* no entry of connection_metadata under a client id
NoMetadata == [present |-> FALSE, heartbeat_age |-> 0]

\* no connection of a client: handle_connection has not been called and
\* there is no heartbeat_monitor task. handler and monitor are the positions
\* of the two tasks, socket the state of the websocket, answers says that the
\* client answers pings, requests counts the provider calls made for its
\* audio messages, dropped names why the service disconnected the client, and
\* seen is the heartbeat age the last check of the monitor read (-1: none)
NoConnection ==
    [handler |-> "none", monitor |-> "none", socket |-> "none",
     answers |-> TRUE, requests |-> 0, dropped |-> "no", seen |-> -1]

\* StreamingService.__init__
StreamingInit ==
    /\ active_connections = {}
    /\ connection_metadata = [c \in Clients |-> NoMetadata]
    /\ stream_stats = [total_connections |-> 0, active_connections |-> 0,
                       total_messages |-> 0]
    /\ conn = [c \in Clients |-> NoConnection]

\* websocket_translate before its first message
RealtimeInit ==
    /\ rt = [audio_buffer |-> <<>>, speech_chunks |-> 0, silence_chunks |-> 0,
             is_recording |-> FALSE]
    /\ rtSrc = [speech |-> FALSE, left |-> 0, runs |-> 0]
    /\ rtLog = [received |-> 0, spoken |-> <<>>, counted |-> <<>>, calls |-> <<>>]

\* TranscriptionService.__init__ and TranslationService.__init__
ServiceFields(config) ==
    /\ svcConfig = config
    /\ transcription_cache = {}
    /\ translation_cache = {}
    /\ svcStats = ZeroServiceStats
    /\ call = IdleCall
    /\ done = <<>>

\* the three services after construction; no websocket has connected
ServiceInit(config) ==
    /\ ServiceFields(config)
    /\ CacheInit([s \in Services |-> <<>>], 0)
    /\ StreamingInit
    /\ RealtimeInit

\* the translator after __init__ and initialize(), with config.json naming
\* the sensitivity mode
TranslatorConfigured(fw, oa, mode) ==
    /\ fireworks_client = fw
    /\ openai_client = oa
    /\ target_lang = "zh"
    /\ is_processing = FALSE
    /\ stats = InitialStats
    /\ history = <<>>
    /\ jobs = <<>>
    /\ silence_threshold = InitialProfile.silence_threshold
    /\ min_speech_chunks = InitialProfile.min_speech_chunks
    /\ max_recording_duration = InitialProfile.max_recording_duration
    /\ speech_timeout = InitialProfile.speech_timeout
    /\ vad_level = InitialProfile.vad_level
    /\ sensitivity_mode = mode
    /\ frames = <<>>
    /\ silent_chunks = 0
    /\ speech_chunks = 0
    /\ recording_chunks = 0
    /\ is_speaking = FALSE
    /\ capture = "top"
    /\ is_running = TRUE
    /\ is_recording = TRUE
    /\ src = [speech |-> FALSE, left |-> 0, runs |-> 0]
    /\ framesRead = 0
    /\ fed = <<>>
    /\ ui = [pc |-> 0, key |-> "0", presses |-> 0, overlap |-> 0,
             at |-> 0, seen |-> <<>>]
    /\ threads = <<>>
    /\ lastClose = [kind |-> "none"]

\* the translator after __init__ and initialize() without a configured
\* sensitivity mode
TranslatorInit(fw, oa) == TranslatorConfigured(fw, oa, "Balanced")

\* the translator is started; the service layer is not called
InitWith(fw, oa) ==
    /\ TranslatorInit(fw, oa)
    /\ ServiceInit(DefaultServices)

Init == InitWith(TRUE, TRUE)

\* ------------------------------------------------------------------ capture stream
\* The microphone delivers the next run of speech frames or of silence frames.
DeliverRun(speechLengths, silenceLengths) ==
    /\ src.left = 0
    /\ \E sp \in BOOLEAN :
         /\ src.runs > 0 => sp # src.speech
         /\ \E n \in (IF sp THEN speechLengths ELSE silenceLengths) :
              src' = [speech |-> sp, left |-> n, runs |-> src.runs + 1]

SourceNextRun ==
    /\ src.runs < MaxRuns
    /\ DeliverRun(SpeechRunLengths, SilenceRunLengths)
    /\ UNCHANGED <<webVars, svcVars, profVars, segVars, framesRead, fed, ui, threads, lastClose,
                   cfgVars, pipeVars>>

\* ------------------------------------------------------------------ process_audio
\* an iteration that reads a frame whether or not recording is paused
IteratingWhilePaused == capture = "read" \/ (capture = "top" /\ is_running)

\* process_audio is waiting in stream.read, or at the while test with
\* is_running and is_recording set
Iterating == capture = "read" \/ (capture = "top" /\ is_running /\ is_recording)

\* One iteration of the loop of process_audio with is_recording set (or the
\* rest of an iteration that is waiting in stream.read): read a frame, classify
\* it, and run the segmentation step on it.
ProcessFrame ==
    /\ Iterating
    /\ src.left > 0
    /\ ui.pc > 0 => ui.overlap < MaxOverlap
    /\ LET data == framesRead + 1
           audio_level == IF src.speech THEN FrameLevel.speech ELSE FrameLevel.silence
           is_loud_enough == audio_level > amplitude_threshold(sensitivity_mode)
           is_speech == src.speech /\ is_loud_enough
       IN
       /\ src' = [src EXCEPT !.left = @ - 1]
       /\ framesRead' = data
       /\ fed' = Feed(fed, is_speech)
       /\ IF is_speech
          THEN LET buf == Append(frames, data)
                   sc == speech_chunks + 1
                   rc == recording_chunks + 1
               IN
               IF OverMaxDuration(rc, max_recording_duration)
                     \/ SpeechTimedOut(sc, speech_timeout)
               THEN /\ threads' = IF EnoughFrames(buf, min_speech_chunks)
                                  THEN StartThread(threads, buf)
                                  ELSE threads
                    /\ lastClose' = [kind |-> "forced", buffer |-> buf,
                                     emitted |-> EnoughFrames(buf, min_speech_chunks),
                                     min_speech_chunks |-> min_speech_chunks,
                                     at |-> data]
                    /\ frames' = NewBuffer(buf)
                    /\ recording_chunks' = 0
                    /\ speech_chunks' = 0
                    /\ silent_chunks' = 0
                    /\ is_speaking' = TRUE
                    /\ UNCHANGED stats
               ELSE /\ frames' = buf
                    /\ silent_chunks' = 0
                    /\ speech_chunks' = sc
                    /\ recording_chunks' = rc
                    /\ is_speaking' = TRUE
                    /\ UNCHANGED <<threads, lastClose, stats>>
          ELSE IF frames # <<>>
          THEN LET buf == Append(frames, data)
                   qc == silent_chunks + 1
               IN
               IF SilenceExceeded(qc, silence_threshold)
               THEN LET emit == EnoughFrames(buf, min_speech_chunks) /\ ~TooShort(buf)
                    IN
                    /\ threads' = IF emit THEN StartThread(threads, buf) ELSE threads
                    /\ stats' = IF emit THEN AddAudioDuration(stats, buf) ELSE stats
                    /\ lastClose' = [kind |-> "silence", buffer |-> buf,
                                     emitted |-> emit,
                                     min_speech_chunks |-> min_speech_chunks,
                                     at |-> data]
                    /\ frames' = NewBuffer(buf)
                    /\ silent_chunks' = 0
                    /\ speech_chunks' = 0
                    /\ recording_chunks' = 0
                    /\ is_speaking' = FALSE
               ELSE /\ frames' = buf
                    /\ silent_chunks' = qc
                    /\ is_speaking' = FALSE
                    /\ UNCHANGED <<speech_chunks, recording_chunks, threads, lastClose,
                                   stats>>
          ELSE /\ is_speaking' = FALSE
               /\ UNCHANGED <<frames, silent_chunks, speech_chunks, recording_chunks,
                              threads, lastClose, stats>>
    /\ capture' = "top"
    /\ ui' = IF ui.pc > 0 THEN [ui EXCEPT !.overlap = @ + 1] ELSE ui
    /\ UNCHANGED <<webVars, svcVars, profVars, cfgVars, is_processing, history, jobs>>

\* ------------------------------------------------------------------ the UI thread
\* The UI thread has read a key and enters its handler; at and seen record the
\* frames read and the pipeline threads started when the key was read.
KeyRead(key, presses) ==
    [pc |-> 1, key |-> key, presses |-> presses, overlap |-> 0,
     at |-> framesRead, seen |-> threads]

\* ------------------------------------------------------------------ adjust_sensitivity
\* The user presses a sensitivity key; the UI thread enters adjust_sensitivity.
AdjustBegin ==
    /\ ui.pc = 0
    /\ ui.presses < MaxAdjusts
    /\ src.left = 0
    /\ \E key \in SensitivityKeys :
         ui' = KeyRead(key, ui.presses + 1)
    /\ UNCHANGED <<webVars, svcVars, profVars, segVars, srcVars, threads, lastClose, cfgVars, pipeVars>>

\* The assignments of the selected branch, one at a time; the capture thread
\* may run between any two of them.
AdjustStep ==
    /\ ui.pc > 0
    /\ LET p == ProfileOf(ui.key) IN
       /\ silence_threshold' = IF ui.pc = 1 THEN p.silence_threshold ELSE silence_threshold
       /\ min_speech_chunks' = IF ui.pc = 2 THEN p.min_speech_chunks ELSE min_speech_chunks
       /\ max_recording_duration' =
              IF ui.pc = 3 THEN p.max_recording_duration ELSE max_recording_duration
       /\ speech_timeout' = IF ui.pc = 4 THEN p.speech_timeout ELSE speech_timeout
       /\ sensitivity_mode' = IF ui.pc = 5 THEN p.sensitivity_mode ELSE sensitivity_mode
       /\ vad_level' = IF ui.pc = 6 THEN p.vad_level ELSE vad_level
    /\ ui' = [ui EXCEPT !.pc = IF ui.pc = 6 THEN 0 ELSE ui.pc + 1,
                         !.overlap = IF ui.pc = 6 THEN 0 ELSE @]
    /\ UNCHANGED <<webVars, svcVars, segVars, srcVars, threads, lastClose, cfgVars, pipeVars>>

\* ------------------------------------------------------------------ providers
\* The transcription of an audio buffer, and the translation of a text.
Transcription(audio_data) == [heard |-> audio_data]
Translation(text, lang) == [of |-> text, lang |-> lang]

\* ------------------------------------------------------------------ transcribe_with_fireworks
Running(t) == t.pc # "done"

SetThread(i, t) == threads' = [threads EXCEPT ![i] = t]

\* an entry that does not look at the client
ThreadBeginUnchecked(i) ==
    /\ threads[i].pc = "start"
    /\ is_processing' = TRUE
    /\ SetThread(i, [threads[i] EXCEPT !.pc = "transcribe"])
    /\ UNCHANGED <<webVars, svcVars, profVars, segVars, srcVars, ui, lastClose, cfgVars,
                   stats, history, jobs>>

\* self.is_processing = True; return at once when no client is configured
ThreadBegin(i) ==
    /\ threads[i].pc = "start"
    /\ IF fireworks_client
       THEN /\ is_processing' = TRUE
            /\ SetThread(i, [threads[i] EXCEPT !.pc = "transcribe"])
       ELSE /\ is_processing' = FALSE
            /\ SetThread(i, [threads[i] EXCEPT !.pc = "done"])
    /\ UNCHANGED <<webVars, svcVars, profVars, segVars, srcVars, ui, lastClose, cfgVars,
                   stats, history, jobs>>

\* audio.transcriptions.create returns a text
TranscribeText(i) ==
    /\ threads[i].pc = "transcribe"
    /\ \E w \in WordCounts :
         SetThread(i, [threads[i] EXCEPT !.pc = "calls_r",
                                         !.requests = @ + 1,
                                         !.text = Transcription(threads[i].audio),
                                         !.words = w])
    /\ UNCHANGED <<webVars, svcVars, profVars, segVars, srcVars, ui, lastClose, cfgVars, pipeVars>>

\* an empty text that is handled as a failed request
TranscribeEmptyAsError(i) ==
    /\ threads[i].pc = "transcribe"
    /\ SetThread(i, [threads[i] EXCEPT !.pc = "err_r", !.requests = @ + 1,
                                       !.text = EmptyText])
    /\ UNCHANGED <<webVars, svcVars, profVars, segVars, srcVars, ui, lastClose, cfgVars, pipeVars>>

\* audio.transcriptions.create returns an empty or whitespace-only text
TranscribeEmpty(i) ==
    /\ threads[i].pc = "transcribe"
    /\ is_processing' = FALSE
    /\ SetThread(i, [threads[i] EXCEPT !.pc = "done", !.requests = @ + 1,
                                       !.text = EmptyText])
    /\ UNCHANGED <<webVars, svcVars, profVars, segVars, srcVars, ui, lastClose, cfgVars,
                   stats, history, jobs>>

\* a failed request that is sent again
TranscribeErrorRetried(i) ==
    /\ threads[i].pc = "transcribe"
    /\ SetThread(i, [threads[i] EXCEPT !.requests = @ + 1])
    /\ UNCHANGED <<webVars, svcVars, profVars, segVars, srcVars, ui, lastClose, cfgVars, pipeVars>>

\* audio.transcriptions.create raises: the inner handler takes over
TranscribeError(i) ==
    /\ threads[i].pc = "transcribe"
    /\ SetThread(i, [threads[i] EXCEPT !.pc = "err_r", !.requests = @ + 1])
    /\ UNCHANGED <<webVars, svcVars, profVars, segVars, srcVars, ui, lastClose, cfgVars, pipeVars>>

\* self.stats[key] += amount is a load of the old value ...
LoadStat(t, key, next) == [t EXCEPT !.tmp = stats[key], !.pc = next]

\* ... and a store of old value + amount
StoreStat(st, t, key, amount) == [st EXCEPT ![key] = t.tmp + amount]

\* the thread after a store: the loaded value is dead
Stored(t, next) == [t EXCEPT !.tmp = 0, !.pc = next]

\* self.stats['api_calls'] += 1
CountApiCall(i) ==
    /\ \/ /\ threads[i].pc = "calls_r"
          /\ SetThread(i, LoadStat(threads[i], "api_calls", "calls_w"))
          /\ UNCHANGED stats
       \/ /\ threads[i].pc = "calls_w"
          /\ stats' = StoreStat(stats, threads[i], "api_calls", 1)
          /\ SetThread(i, Stored(threads[i], "translate"))
    /\ UNCHANGED <<webVars, svcVars, profVars, segVars, srcVars, ui, lastClose, cfgVars,
                   is_processing, history, jobs>>

\* translated = text; with a translation client, executor.submit(_translate_text, text)
SubmitTranslation(i) ==
    /\ threads[i].pc = "translate"
    /\ IF openai_client
       THEN /\ jobs' = Append(jobs, [text |-> threads[i].text, st |-> "queued",
                                     lang |-> NoLang, result |-> NoText])
            /\ SetThread(i, [threads[i] EXCEPT !.pc = "await", !.job = Len(jobs) + 1,
                                               !.translated = threads[i].text])
       ELSE /\ SetThread(i, [threads[i] EXCEPT !.pc = "tt_r",
                                               !.translated = threads[i].text])
            /\ UNCHANGED jobs
    /\ UNCHANGED <<webVars, svcVars, profVars, segVars, srcVars, ui, lastClose, cfgVars,
                   is_processing, stats, history>>

\* translation_future.result(timeout=3) returns the result of the future
TranslationReturned(i) ==
    /\ threads[i].pc = "await"
    /\ jobs[threads[i].job].st = "done"
    /\ SetThread(i, [threads[i] EXCEPT !.pc = "tt_r",
                                       !.translated = jobs[threads[i].job].result])
    /\ UNCHANGED <<webVars, svcVars, profVars, segVars, srcVars, ui, lastClose, cfgVars, pipeVars>>

\* a timeout that leaves the translation empty
TranslationTimedOutEmpty(i) ==
    /\ threads[i].pc = "await"
    /\ jobs[threads[i].job].st # "done"
    /\ SetThread(i, [threads[i] EXCEPT !.pc = "tt_r", !.translated = NoText])
    /\ UNCHANGED <<webVars, svcVars, profVars, segVars, srcVars, ui, lastClose, cfgVars, pipeVars>>

\* a result() without timeout: the thread waits until the future is done
TranslationAwaited(i) ==
    /\ threads[i].pc = "await"
    /\ FALSE
    /\ UNCHANGED vars

\* translation_future.result(timeout=3) raises TimeoutError: translated = text
TranslationTimedOut(i) ==
    /\ threads[i].pc = "await"
    /\ jobs[threads[i].job].st # "done"
    /\ SetThread(i, [threads[i] EXCEPT !.pc = "tt_r",
                                       !.translated = threads[i].text])
    /\ UNCHANGED <<webVars, svcVars, profVars, segVars, srcVars, ui, lastClose, cfgVars, pipeVars>>

\* latency = time.time() - start_time (a local, chosen where it is first
\* stored), then the three accumulating counters
UpdateTotals(i) ==
    /\ \/ /\ threads[i].pc = "tt_r"
          /\ SetThread(i, LoadStat(threads[i], "total_translations", "tt_w"))
          /\ UNCHANGED stats
       \/ /\ threads[i].pc = "tt_w"
          /\ stats' = StoreStat(stats, threads[i], "total_translations", 1)
          /\ SetThread(i, Stored(threads[i], "tw_r"))
       \/ /\ threads[i].pc = "tw_r"
          /\ SetThread(i, LoadStat(threads[i], "total_words", "tw_w"))
          /\ UNCHANGED stats
       \/ /\ threads[i].pc = "tw_w"
          /\ stats' = StoreStat(stats, threads[i], "total_words", threads[i].words)
          /\ SetThread(i, Stored(threads[i], "tl_r"))
       \/ /\ threads[i].pc = "tl_r"
          /\ SetThread(i, LoadStat(threads[i], "total_latency", "tl_w"))
          /\ UNCHANGED stats
       \/ /\ threads[i].pc = "tl_w"
          /\ \E l \in Latencies :
               /\ stats' = StoreStat(stats, threads[i], "total_latency", l)
               /\ SetThread(i, Stored([threads[i] EXCEPT !.latency = l], "derived"))
    /\ UNCHANGED <<webVars, svcVars, profVars, segVars, srcVars, ui, lastClose, cfgVars,
                   is_processing, history, jobs>>

Max2(a, b) == IF a >= b THEN a ELSE b
Min2(a, b) == IF a <= b THEN a ELSE b

\* avg_latency = total_latency / total_translations; peak_latency; min_latency;
\* processing_speed = audio_duration / latency; languages_used.add(target_lang)
UpdateDerived(i) ==
    /\ threads[i].pc = "derived"
    /\ IF stats.total_translations = 0
       THEN \* ZeroDivisionError, caught by the outer handler
            /\ SetThread(i, [threads[i] EXCEPT !.pc = "err_r"])
            /\ UNCHANGED stats
       ELSE /\ stats' = [stats EXCEPT
                            !.avg_latency = <<stats.total_latency, stats.total_translations>>,
                            !.peak_latency = Max2(@, threads[i].latency),
                            !.min_latency = Min2(@, threads[i].latency),
                            !.processing_speed =
                                <<Len(threads[i].audio) * chunk_size, threads[i].latency>>,
                            !.languages_used = @ \cup {target_lang}]
            /\ SetThread(i, [threads[i] EXCEPT !.pc = "fs_r"])
    /\ UNCHANGED <<webVars, svcVars, profVars, segVars, srcVars, ui, lastClose, cfgVars,
                   is_processing, history, jobs>>

\* time_saved = max(0, baseline_latency - latency);
\* self.stats['fireworks_savings'] += time_saved
UpdateSavings(i) ==
    /\ \/ /\ threads[i].pc = "fs_r"
          /\ SetThread(i, LoadStat(threads[i], "fireworks_savings", "fs_w"))
          /\ UNCHANGED stats
       \/ /\ threads[i].pc = "fs_w"
          /\ stats' = StoreStat(stats, threads[i], "fireworks_savings",
                                Max2(0, baseline_latency - threads[i].latency))
          /\ SetThread(i, Stored(threads[i], "append"))
    /\ UNCHANGED <<webVars, svcVars, profVars, segVars, srcVars, ui, lastClose, cfgVars,
                   is_processing, history, jobs>>

\* an append to a list without maxlen
DequeAppendUnbounded(h, e) == Append(h, e)

\* an append that stores the entry twice
DequeAppendTwice(h, e) == Append(Append(h, e), e)

\* deque(maxlen=100).append
DequeAppend(h, e) ==
    IF Len(h) >= history_maxlen THEN Append(Tail(h), e) ELSE Append(h, e)

HistoryEntry(t, lang) ==
    [original |-> t.text, translated |-> t.translated, target_lang |-> lang,
     latency |-> t.latency, words |-> t.words]

\* self.history.append(entry)
AppendHistory(i) ==
    /\ threads[i].pc = "append"
    /\ history' = DequeAppend(history, HistoryEntry(threads[i], target_lang))
    /\ SetThread(i, [threads[i] EXCEPT !.pc = "finish"])
    /\ UNCHANGED <<webVars, svcVars, profVars, segVars, srcVars, ui, lastClose, cfgVars,
                   is_processing, stats, jobs>>

\* self.is_processing = False at the end of a successful invocation
ThreadFinish(i) ==
    /\ threads[i].pc = "finish"
    /\ is_processing' = FALSE
    /\ SetThread(i, [threads[i] EXCEPT !.pc = "done"])
    /\ UNCHANGED <<webVars, svcVars, profVars, segVars, srcVars, ui, lastClose, cfgVars,
                   stats, history, jobs>>

\* an except handler: self.stats['api_errors'] += 1; self.is_processing = False
ThreadFail(i) ==
    /\ \/ /\ threads[i].pc = "err_r"
          /\ SetThread(i, LoadStat(threads[i], "api_errors", "err_w"))
          /\ UNCHANGED <<stats, is_processing>>
       \/ /\ threads[i].pc = "err_w"
          /\ stats' = StoreStat(stats, threads[i], "api_errors", 1)
          /\ is_processing' = FALSE
          /\ SetThread(i, Stored(threads[i], "done"))
    /\ UNCHANGED <<webVars, svcVars, profVars, segVars, srcVars, ui, lastClose, cfgVars, history, jobs>>

\* ------------------------------------------------------------------ ThreadPoolExecutor
NumRunning == Cardinality({j \in 1..Len(jobs) : jobs[j].st = "running"})

\* an idle worker takes the oldest queued work item and calls _translate_text,
\* which builds its request for the target language of that moment
WorkerTake(j) ==
    /\ jobs[j].st = "queued"
    /\ \A k \in 1..(j - 1) : jobs[k].st # "queued"
    /\ NumRunning < max_workers
    /\ jobs' = [jobs EXCEPT ![j].st = "running", ![j].lang = target_lang]
    /\ UNCHANGED <<webVars, svcVars, profVars, segVars, srcVars, ui, threads, lastClose, cfgVars,
                   is_processing, stats, history>>

\* _translate_text returns: the translation, or the text itself when the
\* request raised
WorkerReturn(j) ==
    /\ jobs[j].st = "running"
    /\ \E r \in {Translation(jobs[j].text, jobs[j].lang), jobs[j].text} :
         jobs' = [jobs EXCEPT ![j].st = "done", ![j].result = r]
    /\ UNCHANGED <<webVars, svcVars, profVars, segVars, srcVars, ui, threads, lastClose, cfgVars,
                   is_processing, stats, history>>

\* ------------------------------------------------------------------ the 't' key
UiBusy == \E i \in 1..Len(threads) : threads[i].origin = "test" /\ Running(threads[i])

UtteranceOpen == frames # <<>> \/ (src.left > 0 /\ src.speech)

\* np.random.randint(...).tobytes(): samples that are no frame of the stream
test_data(k) == <<0 - k>>

\* The UI thread calls transcribe_with_fireworks(test_data) itself.
TestKey ==
    /\ ui.pc = 0
    /\ ~UiBusy
    /\ Len(threads) + (IF UtteranceOpen THEN 2 ELSE 1) \in ThreadIds
    /\ threads' = Append(threads, NewThread(test_data(Len(threads) + 1), "test"))
    /\ UNCHANGED <<webVars, svcVars, profVars, segVars, srcVars, ui, lastClose, cfgVars, pipeVars>>

\* The microphone delivers the next run of an utterance.
SourceNextUtterance ==
    /\ src.speech \/ Len(threads) + 1 \in ThreadIds
    /\ DeliverRun(UtteranceSpeech, UtteranceSilence)
    /\ UNCHANGED <<webVars, svcVars, profVars, segVars, framesRead, fed, ui, threads, lastClose,
                   cfgVars, pipeVars>>

ThreadStep(i) ==
    \/ ThreadBegin(i)
    \/ TranscribeText(i)
    \/ TranscribeEmpty(i)
    \/ TranscribeError(i)
    \/ CountApiCall(i)
    \/ SubmitTranslation(i)
    \/ TranslationReturned(i)
    \/ TranslationTimedOut(i)
    \/ UpdateTotals(i)
    \/ UpdateDerived(i)
    \/ UpdateSavings(i)
    \/ AppendHistory(i)
    \/ ThreadFinish(i)
    \/ ThreadFail(i)

PipelineStep ==
    \/ \E i \in 1..Len(threads) : ThreadStep(i)
    \/ \E j \in 1..Len(jobs) : WorkerTake(j) \/ WorkerReturn(j)

Next ==
    \/ SourceNextRun
    \/ ProcessFrame
    \/ AdjustBegin
    \/ AdjustStep

Spec == Init /\ [][Next]_vars

\* The first utterance of a speaker who pauses between bursts of speech.
SourceNextBurst ==
    /\ threads = <<>>
    /\ lastClose.kind = "none"
    /\ DeliverRun(BurstLengths, PauseLengths)
    /\ UNCHANGED <<webVars, svcVars, profVars, segVars, framesRead, fed, ui, threads, lastClose,
                   cfgVars, pipeVars>>

NextPauses ==
    \/ SourceNextBurst
    \/ ProcessFrame

SpecPauses == Init /\ [][NextPauses]_vars

\* The segmenter together with the pipeline threads it starts.
InitPipe == \E fw \in BOOLEAN, oa \in BOOLEAN : InitWith(fw, oa)

\* The capture thread shares no variable with the pipeline threads it has
\* started (they work on their own audio_data), so its steps commute with
\* theirs: the frames of a run are taken together, and the pipeline threads
\* and the UI thread are followed between the runs.
BetweenRuns == src.left = 0

NextPipe ==
    \/ SourceNextUtterance
    \/ ProcessFrame
    \/ (BetweenRuns /\ TestKey)
    \/ (BetweenRuns /\ PipelineStep)

SpecPipe == InitPipe /\ [][NextPipe]_vars

\* ------------------------------------------------------------------ four utterances, three workers
\* one utterance more than the executor has workers
Utterances == max_workers + 1

\* The microphone delivers the next run of one of the utterances.
SourceNextDispatch ==
    /\ src.speech \/ Len(threads) < Utterances
    /\ DeliverRun(UtteranceSpeech, UtteranceSilence)
    /\ UNCHANGED <<webVars, svcVars, profVars, segVars, framesRead, fed, ui, threads, lastClose,
                   cfgVars, pipeVars>>

\* The points where a pipeline thread waits for something else: to be
\* scheduled for the first time, for the transcription request, for the
\* future of the executor.
SwitchPoints == {"start", "transcribe", "await", "done"}

\* no other pipeline thread is between two switch points
Undisturbed(i) ==
    \A k \in 1..Len(threads) : k # i => threads[k].pc \in SwitchPoints

\* a step of transcribe_with_fireworks whose transcription request returns a text
ThreadStepText(i) ==
    \/ ThreadBegin(i)
    \/ TranscribeText(i)
    \/ CountApiCall(i)
    \/ SubmitTranslation(i)
    \/ TranslationReturned(i)
    \/ TranslationTimedOut(i)
    \/ UpdateTotals(i)
    \/ UpdateDerived(i)
    \/ UpdateSavings(i)
    \/ AppendHistory(i)
    \/ ThreadFinish(i)
    \/ ThreadFail(i)

\* all utterances of the scenario have been handed to pipeline threads, none
\* of which has been scheduled before the last one was started
AllDispatched == Len(threads) = Utterances

\* the threads reach the executor in the order in which they were started
InOrder(i) ==
    threads[i].pc \in {"start", "transcribe"} =>
        \A k \in 1..(i - 1) : threads[k].pc \notin {"start", "transcribe"}

\* Pipeline thread i runs from one switch point to the next.
ThreadRun(i) ==
    /\ i \in 1..Len(threads)
    /\ AllDispatched
    /\ Undisturbed(i)
    /\ InOrder(i)
    /\ ThreadStepText(i)

\* A worker of the executor runs while the pipeline threads wait; its
\* translation request succeeds, after any time.
WorkerRun ==
    /\ AllDispatched
    /\ \A k \in 1..Len(threads) : threads[k].pc \in SwitchPoints
    /\ \E j \in 1..Len(jobs) :
          \/ WorkerTake(j)
          \/ WorkerReturn(j) /\ jobs'[j].result # jobs[j].text

NextE ==
    \/ SourceNextDispatch
    \/ ProcessFrame
    \/ \E i \in 1..Utterances : ThreadRun(i)
    \/ WorkerRun

\* Every started pipeline thread keeps being scheduled; nothing is assumed of
\* the workers, whose translation requests may take arbitrarily long.
FairE == \A i \in 1..Utterances : WF_vars(ThreadRun(i))

SpecE == Init /\ [][NextE]_vars /\ FairE

\* ------------------------------------------------------------------ the 'l' and 'c' keys
\* select_languages: the user enters a code of LANGUAGES
SelectLanguage ==
    /\ ui.pc = 0
    /\ ui.presses < MaxKeys
    /\ \E target \in Languages :
         /\ target_lang' = target
         /\ stats' = [stats EXCEPT !.languages_used = @ \cup {target}]
    /\ ui' = [KeyRead("l", ui.presses + 1) EXCEPT !.pc = 0]
    /\ UNCHANGED <<webVars, svcVars, profVars, segVars, srcVars, threads, lastClose,
                   fireworks_client, openai_client, is_running, is_recording,
                   is_processing, history, jobs>>

\* the statistics the 'c' key resets, in program order
ClearedStats ==
    <<"total_translations", "total_words", "total_latency", "avg_latency",
      "api_calls", "api_errors", "fireworks_savings">>

\* self.stats[key] = 0
ZeroStat(st, key) ==
    [st EXCEPT ![key] = IF key = "avg_latency" THEN <<0, 1>> ELSE 0]

\* The user presses 'c'.
ClearBegin ==
    /\ ui.pc = 0
    /\ ui.presses < MaxKeys
    /\ ui' = KeyRead("c", ui.presses + 1)
    /\ UNCHANGED <<webVars, svcVars, profVars, segVars, srcVars, threads, lastClose, cfgVars, pipeVars>>

\* self.history.clear(), then the assignments of the loop, one at a time; the
\* pipeline threads may run between any two of them.
ClearStep ==
    /\ ui.key = "c"
    /\ ui.pc > 0
    /\ IF ui.pc = 1
       THEN /\ history' = <<>>
            /\ UNCHANGED stats
       ELSE /\ stats' = ZeroStat(stats, ClearedStats[ui.pc - 1])
            /\ UNCHANGED history
    /\ ui' = [ui EXCEPT !.pc = IF ui.pc = Len(ClearedStats) + 1 THEN 0 ELSE ui.pc + 1]
    /\ UNCHANGED <<webVars, svcVars, profVars, segVars, srcVars, threads, lastClose, cfgVars,
                   is_processing, jobs>>

\* The microphone delivers the next run of the one utterance of the session.
SourceNextSingle ==
    /\ src.speech \/ threads = <<>>
    /\ DeliverRun(UtteranceSpeech, UtteranceSilence)
    /\ UNCHANGED <<webVars, svcVars, profVars, segVars, framesRead, fed, ui, threads, lastClose,
                   cfgVars, pipeVars>>

\* One utterance, and the user at the keyboard.
NextKeys ==
    \/ SourceNextSingle
    \/ ProcessFrame
    \/ (BetweenRuns /\ PipelineStep)
    \/ (BetweenRuns /\ SelectLanguage)
    \/ (BetweenRuns /\ ClearBegin)
    \/ (BetweenRuns /\ ClearStep)

SpecKeys == Init /\ [][NextKeys]_vars

\* ------------------------------------------------------------------ a long session
\* the frames of the n-th utterance of a session of utterances of
\* UtteranceFrames frames each
UtteranceFrames == 5 + InitialProfile.silence_threshold + 1

NthUtterance(n) ==
    [k \in 1..UtteranceFrames |-> (n - 1) * UtteranceFrames + k]

\* the pipeline thread of the n-th utterance after it has returned, its
\* translation request, and its history entry
DoneThread(n) ==
    [pc |-> "done", audio |-> NthUtterance(n), origin |-> "segmenter",
     text |-> Transcription(NthUtterance(n)), words |-> 2,
     translated |-> Translation(Transcription(NthUtterance(n)), "zh"),
     latency |-> 1, tmp |-> 0, job |-> n, lang |-> "zh", requests |-> 1]

DoneJob(n) ==
    [text |-> Transcription(NthUtterance(n)), st |-> "done", lang |-> "zh",
     result |-> Translation(Transcription(NthUtterance(n)), "zh")]

\* The session after n utterances of 5 speech frames and 26 silence frames
\* have been recorded, transcribed and translated one after the other.
SessionAfter(n) ==
    /\ ServiceInit(DefaultServices)
    /\ fireworks_client = TRUE
    /\ openai_client = TRUE
    /\ target_lang = "zh"
    /\ is_processing = FALSE
    /\ stats = [total_translations |-> n, total_words |-> 2 * n,
                avg_latency |-> <<n, n>>, total_latency |-> n,
                peak_latency |-> 1, min_latency |-> 1,
                api_calls |-> n, api_errors |-> 0,
                total_audio_duration |-> n * UtteranceFrames * chunk_size,
                fireworks_savings |-> n * (baseline_latency - 1),
                processing_speed |-> <<UtteranceFrames * chunk_size, 1>>,
                languages_used |-> {"zh"}]
    /\ history = [k \in 1..n |-> HistoryEntry(DoneThread(k), "zh")]
    /\ jobs = [k \in 1..n |-> DoneJob(k)]
    /\ threads = [k \in 1..n |-> DoneThread(k)]
    /\ silence_threshold = InitialProfile.silence_threshold
    /\ min_speech_chunks = InitialProfile.min_speech_chunks
    /\ max_recording_duration = InitialProfile.max_recording_duration
    /\ speech_timeout = InitialProfile.speech_timeout
    /\ vad_level = InitialProfile.vad_level
    /\ sensitivity_mode = "Balanced"
    /\ frames = <<>>
    /\ silent_chunks = 0
    /\ speech_chunks = 0
    /\ recording_chunks = 0
    /\ is_speaking = FALSE
    /\ capture = "top"
    /\ is_running = TRUE
    /\ is_recording = TRUE
    /\ src = [speech |-> FALSE, left |-> 0, runs |-> 2 * n]
    /\ framesRead = n * UtteranceFrames
    /\ fed = [k \in 1..(2 * n) |-> IF k % 2 = 1 THEN <<TRUE, 5>> ELSE <<FALSE, 26>>]
    /\ ui = [pc |-> 0, key |-> "0", presses |-> 0, overlap |-> 0,
             at |-> 0, seen |-> <<>>]
    /\ lastClose = [kind |-> "silence", buffer |-> NthUtterance(n), emitted |-> TRUE,
                    min_speech_chunks |-> InitialProfile.min_speech_chunks,
                    at |-> n * UtteranceFrames]

\* one entry short of a full history
InitHistory == SessionAfter(history_maxlen - 1)

\* The microphone delivers the next run of one of two further utterances.
SourceNextLate ==
    /\ src.speech \/ Len(threads) < history_maxlen + 1
    /\ DeliverRun(UtteranceSpeech, UtteranceSilence)
    /\ UNCHANGED <<webVars, svcVars, profVars, segVars, framesRead, fed, ui, threads, lastClose,
                   cfgVars, pipeVars>>

\* Pipeline thread i runs from one switch point to the next.
ThreadRunLate(i) ==
    /\ BetweenRuns
    /\ Undisturbed(i)
    /\ InOrder(i)
    /\ ThreadStep(i)

\* A worker of the executor runs while the pipeline threads wait.
WorkerRunLate ==
    /\ BetweenRuns
    /\ \A k \in 1..Len(threads) : threads[k].pc \in SwitchPoints
    /\ \E j \in 1..Len(jobs) : WorkerTake(j) \/ WorkerReturn(j)

NextHistory ==
    \/ SourceNextLate
    \/ ProcessFrame
    \/ \E i \in 1..Len(threads) : ThreadRunLate(i)
    \/ WorkerRunLate

SpecHistory == InitHistory /\ [][NextHistory]_vars

\* ------------------------------------------------------------------ the capture loop
\* while self.is_running: the test succeeds and the iteration waits in
\* stream.read for its frame
BeginRead ==
    /\ capture = "top"
    /\ is_running
    /\ is_recording
    /\ capture' = "read"
    /\ UNCHANGED <<webVars, svcVars, profVars, frames, silent_chunks, speech_chunks, recording_chunks,
                   is_speaking, srcVars, ui, threads, lastClose, cfgVars, pipeVars>>

\* while self.is_running: the test fails and process_audio returns
LoopExit ==
    /\ capture = "top"
    /\ ~is_running
    /\ capture' = "stopped"
    /\ UNCHANGED <<webVars, svcVars, profVars, frames, silent_chunks, speech_chunks, recording_chunks,
                   is_speaking, srcVars, ui, threads, lastClose, cfgVars, pipeVars>>

\* a read error that ends the capture thread
ReadErrorStops ==
    /\ Iterating
    /\ stats.api_errors < MaxReadErrors
    /\ stats' = [stats EXCEPT !.api_errors = @ + 1]
    /\ capture' = "stopped"
    /\ UNCHANGED <<webVars, svcVars, profVars, frames, silent_chunks, speech_chunks, recording_chunks,
                   is_speaking, srcVars, ui, threads, lastClose, cfgVars,
                   is_processing, history, jobs>>

\* stream.read raises: the handler of the loop counts the error and the loop
\* goes on; the frame that was due is lost or is still to be read
ReadError ==
    /\ Iterating
    /\ stats.api_errors < MaxReadErrors
    /\ stats' = [stats EXCEPT !.api_errors = @ + 1]
    /\ capture' = "top"
    /\ \E lost \in BOOLEAN :
         /\ lost => src.left > 0
         /\ src' = IF lost THEN [src EXCEPT !.left = @ - 1] ELSE src
         /\ framesRead' = IF lost THEN framesRead + 1 ELSE framesRead
    /\ UNCHANGED <<webVars, svcVars, profVars, frames, silent_chunks, speech_chunks, recording_chunks,
                   is_speaking, fed, ui, threads, lastClose, cfgVars,
                   is_processing, history, jobs>>

\* The user presses 'q': self.is_running = False
Quit ==
    /\ ui.pc = 0
    /\ is_running
    /\ is_running' = FALSE
    /\ ui' = [KeyRead("q", ui.presses + 1) EXCEPT !.pc = 0]
    /\ UNCHANGED <<webVars, svcVars, profVars, segVars, srcVars, threads, lastClose,
                   fireworks_client, openai_client, target_lang, is_recording,
                   pipeVars>>

\* The microphone delivers the next run of an utterance.
SourceNextLoop ==
    /\ src.runs < MaxRuns
    /\ DeliverRun(UtteranceSpeech, UtteranceSilence)
    /\ UNCHANGED <<webVars, svcVars, profVars, segVars, framesRead, fed, ui, threads, lastClose,
                   cfgVars, pipeVars>>

\* The capture thread step by step, with failing reads and the 'q' key.
NextLoop ==
    \/ SourceNextLoop
    \/ BeginRead
    \/ ProcessFrame
    \/ ReadError
    \/ Quit
    \/ LoopExit

SpecLoop == Init /\ [][NextLoop]_vars

\* ------------------------------------------------------------------ pause and resume
\* if self.is_recording fails: the iteration is in time.sleep(0.1)
PausedSleep ==
    /\ capture = "top"
    /\ is_running
    /\ ~is_recording
    /\ capture' = "sleep"
    /\ UNCHANGED <<webVars, svcVars, profVars, frames, silent_chunks, speech_chunks, recording_chunks,
                   is_speaking, srcVars, ui, threads, lastClose, cfgVars, pipeVars>>

\* time.sleep returns and the loop is at its while test again
SleepEnds ==
    /\ capture = "sleep"
    /\ capture' = "top"
    /\ UNCHANGED <<webVars, svcVars, profVars, frames, silent_chunks, speech_chunks, recording_chunks,
                   is_speaking, srcVars, ui, threads, lastClose, cfgVars, pipeVars>>

\* The user presses the space key: self.is_recording = not self.is_recording
TogglePause ==
    /\ ui.pc = 0
    /\ ui.presses < MaxPauses
    /\ is_running
    /\ is_recording' = ~is_recording
    /\ ui' = [KeyRead(" ", ui.presses + 1) EXCEPT !.pc = 0]
    /\ UNCHANGED <<webVars, svcVars, profVars, segVars, srcVars, threads, lastClose,
                   fireworks_client, openai_client, target_lang, is_running,
                   pipeVars>>

\* The capture thread step by step, with the space key.
NextPause ==
    \/ SourceNextLoop
    \/ BeginRead
    \/ ProcessFrame
    \/ PausedSleep
    \/ SleepEnds
    \/ TogglePause

SpecPause == Init /\ [][NextPause]_vars

\* ------------------------------------------------------------------ configured start-up
\* config.json names any of the sensitivity modes save_config can have written
InitConfig ==
    \E mode \in Modes :
        /\ TranslatorConfigured(TRUE, TRUE, mode)
        /\ ServiceInit(DefaultServices)

SpecConfig == InitConfig /\ [][Next]_vars

\* The segmenter under one profile: adjust_sensitivity, if called at all, has
\* completed before the first frame is read.
NextProfile ==
    \/ SourceNextRun /\ ui.pc = 0
    \/ ProcessFrame /\ ui.pc = 0
    \/ AdjustBegin /\ framesRead = 0 /\ src.runs = 0
    \/ AdjustStep

SpecProfile == Init /\ [][NextProfile]_vars

\* ------------------------------------------------------------------ service layer: caches
\* a cache is a set of entries [key, value, fresh], one per key; fresh says
\* that the age of the entry is below settings.cache_ttl

\* _get_cached_transcription / _get_cached_translation: the value found (None
\* is found = FALSE), the cache without an expired entry, and the increments of
\* cache_hits and cache_misses
CacheLookup(cache, key, enabled) ==
    LET entries == {e \in cache : e.key = key} IN
    IF ~enabled
    THEN [found |-> FALSE, value |-> <<>>, cache |-> cache, hits |-> 0, misses |-> 0]
    ELSE IF \E e \in entries : e.fresh
    THEN [found |-> TRUE, value |-> (CHOOSE e \in entries : TRUE).value,
          cache |-> cache, hits |-> 1, misses |-> 0]
    ELSE [found |-> FALSE, value |-> <<>>, cache |-> cache \ entries,
          hits |-> 0, misses |-> 1]

\* _cache_transcription / _cache_translation: self.cache[key] = (value, now)
CacheStore(cache, key, value, enabled) ==
    IF enabled
    THEN {e \in cache : e.key # key} \cup {[key |-> key, value |-> value, fresh |-> TRUE]}
    ELSE cache

\* the entry with its age at settings.cache_ttl or beyond
Expired(cache, e) == (cache \ {e}) \cup {[e EXCEPT !.fresh = FALSE]}

\* the age of an entry of the transcription cache reaches settings.cache_ttl
\* between two calls
TranscriptionExpires ==
    /\ call.pc = "idle"
    /\ Len(done) < MaxCalls
    /\ \E e \in transcription_cache :
         /\ e.fresh
         /\ transcription_cache' = Expired(transcription_cache, e)
    /\ UNCHANGED <<webVars, appVars, svcConfig, translation_cache, svcStats, call, done>>

\* the same for an entry of the translation cache
TranslationExpires ==
    /\ call.pc = "idle"
    /\ Len(done) < MaxCalls
    /\ \E e \in translation_cache :
         /\ e.fresh
         /\ translation_cache' = Expired(translation_cache, e)
    /\ UNCHANGED <<webVars, appVars, svcConfig, transcription_cache, svcStats, call, done>>

\* ------------------------------------------------------------------ service layer: calls
\* the call goes on as c
GoOn(c, st, tc, xc) ==
    /\ call' = c
    /\ svcStats' = st
    /\ transcription_cache' = tc
    /\ translation_cache' = xc
    /\ UNCHANGED done

\* the call hands result to its caller
Return(c, result, st, tc, xc) ==
    /\ call' = IdleCall
    /\ done' = Append(done, [c EXCEPT !.pc = "returned", !.result = result])
    /\ svcStats' = st
    /\ transcription_cache' = tc
    /\ translation_cache' = xc

\* process_audio_chunk, except Exception: total_errors += 1, an error message
\* to the client, return None
ChunkFails(c, error, st, tc, xc) ==
    Return(c, NoneResult(error), [st EXCEPT !.total_errors = @ + 1], tc, xc)

\* a client sends a chunk: process_audio_chunk up to the call of transcribe_audio
ChunkBegin ==
    /\ call.pc = "idle"
    /\ Len(done) < MaxCalls
    /\ \E audio_data \in Audios, target_language \in ServiceLanguages :
         LET c == [IdleCall EXCEPT
                      !.op = "chunk", !.audio = audio_data, !.target = target_language,
                      !.warm = /\ svcConfig.enable_translation_cache
                               /\ \E e \in transcription_cache : e.key = audio_data
                               /\ \A e \in transcription_cache : e.fresh
                               /\ \A e \in translation_cache : e.fresh]
         IN
         IF HasVoice(audio_data)
         THEN GoOn([c EXCEPT !.pc = "transcribe"], svcStats,
                   transcription_cache, translation_cache)
         ELSE Return(c, NoneResult("none"), svcStats,
                     transcription_cache, translation_cache)
    /\ UNCHANGED <<webVars, appVars, svcConfig>>

\* a caller of TranscriptionService.transcribe_audio(audio_data)
TranscribeBegin ==
    /\ call.pc = "idle"
    /\ Len(done) < MaxCalls
    /\ \E audio_data \in Audios :
         GoOn([IdleCall EXCEPT !.op = "transcribe", !.pc = "transcribe",
                               !.audio = audio_data],
              svcStats, transcription_cache, translation_cache)
    /\ UNCHANGED <<webVars, appVars, svcConfig>>

\* a caller of TranslationService.translate_text(text, target_lang, source_lang)
TranslateBegin ==
    /\ call.pc = "idle"
    /\ Len(done) < MaxCalls
    /\ \E text \in Transcripts, target \in ServiceLanguages,
          source_lang \in ServiceLanguages \cup {NoLanguage} :
         GoOn([IdleCall EXCEPT !.op = "translate", !.pc = "translate",
                               !.text = text, !.target = target,
                               !.source = source_lang],
              svcStats, transcription_cache, translation_cache)
    /\ UNCHANGED <<webVars, appVars, svcConfig>>

\* ------------------------------------------------------------------ transcribe_audio
\* transcribe_audio returns text to its caller
TranscribeReturns(c, text, st, tc) ==
    IF c.op = "transcribe"
    THEN Return(c, Returned(text, FALSE), st, tc, translation_cache)
    ELSE IF text = <<>>
    THEN Return(c, NoneResult("none"), st, tc, translation_cache)
    ELSE GoOn([c EXCEPT !.pc = "detect", !.text = text, !.attempts = 0],
              st, tc, translation_cache)

\* an exception leaves transcribe_audio
TranscribeRaises(c, error, st, tc) ==
    IF c.op = "transcribe"
    THEN Return(c, Raised(error), st, tc, translation_cache)
    ELSE ChunkFails(c, error, st, tc, translation_cache)

\* retry_if_exception_type((APIConnectionError, RateLimitError))
Retried(error) == error \in Retryable

\* a stop condition that allows one attempt more
StopAfterAttemptLate(attempt_number) == attempt_number > max_retries

\* stop_after_attempt(settings.max_retries)
StopAfterAttempt(attempt_number) == attempt_number >= max_retries

\* One attempt of transcribe_audio under its retry decorator.
TranscribeAttempt ==
    /\ call.pc = "transcribe"
    /\ LET enabled == svcConfig.enable_translation_cache
           st == [svcStats EXCEPT !.transcription.total_requests = @ + 1]
           look == CacheLookup(transcription_cache, call.audio, enabled)
           st2 == [st EXCEPT !.transcription.cache_hits = @ + look.hits,
                             !.transcription.cache_misses = @ + look.misses]
           c == [call EXCEPT !.sent.transcribe = @ + 1]
       IN
       IF ~svcConfig.transcription_client
       THEN TranscribeRaises([call EXCEPT !.errors = Append(@, "ValueError")],
                             "ValueError", st, transcription_cache)
       ELSE IF look.found /\ look.value # <<>>
       THEN TranscribeReturns(call, look.value, st2, look.cache)
       ELSE \/ \E text \in Transcripts :
                 TranscribeReturns(
                     c, text,
                     [st2 EXCEPT !.transcription.successful_requests = @ + 1],
                     CacheStore(look.cache, call.audio, text, enabled))
            \/ \E error \in TranscribeErrors :
                 LET f == [c EXCEPT !.errors = Append(@, error)] IN
                 IF Retried(error)
                 THEN IF StopAfterAttempt(f.attempts + 1)
                      THEN TranscribeRaises(f, error, st2, look.cache)
                      ELSE GoOn([f EXCEPT !.attempts = @ + 1], st2, look.cache,
                                translation_cache)
                 ELSE TranscribeRaises(
                          f, error,
                          [st2 EXCEPT !.transcription.failed_requests = @ + 1],
                          look.cache)
    /\ UNCHANGED <<webVars, appVars, svcConfig>>

\* ------------------------------------------------------------------ detect_language, process_parallel
\* what detect_language returns: None without a client, else the code the
\* provider names if it is one of LANGUAGES, or None (another code, an exception)
Detections == IF svcConfig.translation_client
              THEN ServiceLanguages \cup {NoLanguage}
              ELSE {NoLanguage}

\* the provider requests of one call of detect_language
DetectRequests == IF svcConfig.translation_client THEN 1 ELSE 0

\* a process_parallel that hands every text to translate_text
NeedsTranslationAlways(detected_lang, target) == TRUE

\* if detected_lang != target_lang
NeedsTranslation(detected_lang, target) == detected_lang # target

\* process_parallel: detect the language of the transcription, then call
\* translate_text or keep the transcription
DetectLanguage ==
    /\ call.pc = "detect"
    /\ \E detected_lang \in Detections :
         LET c == [call EXCEPT !.sent.detect = @ + DetectRequests,
                               !.detected = detected_lang]
         IN
         IF NeedsTranslation(detected_lang, c.target)
         THEN GoOn([c EXCEPT !.pc = "translate", !.source = detected_lang,
                             !.attempts = 0],
                   svcStats, transcription_cache, translation_cache)
         ELSE Return(c, Response(c.text, c.text, detected_lang, c.target),
                     svcStats, transcription_cache, translation_cache)
    /\ UNCHANGED <<webVars, appVars, svcConfig>>

\* ------------------------------------------------------------------ translate_text
\* translate_text returns (value, duration, was_cached) to its caller
TranslateReturns(c, value, was_cached, st, xc) ==
    IF c.op = "translate"
    THEN Return(c, Returned(value, was_cached), st, transcription_cache, xc)
    ELSE Return(c, Response(c.text, value, c.detected, c.target),
                st, transcription_cache, xc)

\* an exception leaves an attempt of translate_text: every exception is
\* retried until stop_after_attempt(settings.max_retries), then re-raised
TranslateRaises(c, error, st, xc) ==
    IF ~StopAfterAttempt(c.attempts + 1)
    THEN GoOn([c EXCEPT !.attempts = @ + 1], st, transcription_cache, xc)
    ELSE IF c.op = "translate"
    THEN Return(c, Raised(error), st, transcription_cache, xc)
    ELSE ChunkFails(c, error, st, transcription_cache, xc)

\* One attempt of translate_text under its retry decorator.
TranslateAttempt ==
    /\ call.pc = "translate"
    /\ LET enabled == svcConfig.enable_translation_cache
           st == [svcStats EXCEPT !.translation.total_requests = @ + 1]
           cache_key == <<call.text, call.target>>
           look == CacheLookup(translation_cache, cache_key, enabled)
           st2 == [st EXCEPT !.translation.cache_hits = @ + look.hits,
                             !.translation.cache_misses = @ + look.misses]
       IN
       IF ~svcConfig.translation_client
       THEN TranslateRaises(call, "ValueError", st, translation_cache)
       ELSE IF call.text = <<>>
       THEN TranslateReturns(call, call.text, FALSE, st, translation_cache)
       ELSE IF look.found /\ look.value # <<>>
       THEN TranslateReturns(call, look.value, TRUE, st2, look.cache)
       ELSE \E source_lang \in (IF call.source = NoLanguage
                                 THEN Detections ELSE {call.source}) :
              LET c == [call EXCEPT !.sent.detect =
                           @ + (IF call.source = NoLanguage THEN DetectRequests ELSE 0)]
                  c2 == [c EXCEPT !.sent.translate = @ + 1]
              IN
              IF source_lang = c.target
              THEN TranslateReturns(
                       c, c.text, FALSE,
                       [st2 EXCEPT !.translation.skipped_same_language = @ + 1],
                       look.cache)
              ELSE \/ TranslateReturns(
                          c2, GeminiTranslation(c.text, c.target), FALSE,
                          [st2 EXCEPT !.translation.successful_requests = @ + 1],
                          CacheStore(look.cache, cache_key,
                                     GeminiTranslation(c.text, c.target), enabled))
                   \/ TranslateRaises(
                          c2, "ServerError",
                          [st2 EXCEPT !.translation.failed_requests = @ + 1],
                          look.cache)
    /\ UNCHANGED <<webVars, appVars, svcConfig>>

\* ------------------------------------------------------------------ service layer: specification
\* the services with or without their clients, with and without caching
InitService ==
    /\ \E tc \in BOOLEAN, xc \in BOOLEAN, enabled \in BOOLEAN :
          ServiceInit([transcription_client |-> tc, translation_client |-> xc,
                       enable_translation_cache |-> enabled])
    /\ TranslatorInit(TRUE, TRUE)

\* no attempt of transcribe_audio in call c raised a retryable error
NoRetryableIn(c) == \A n \in 1..Len(c.errors) : c.errors[n] \notin Retryable

\* An attempt of transcribe_audio while the transcription provider is
\* reachable and does not limit the rate: it returns a text or fails for good.
TranscribeSteady ==
    /\ TranscribeAttempt
    /\ NoRetryableIn(call')
    /\ done' # done => NoRetryableIn(done'[Len(done')])

\* Chunks sent to process_audio_chunk and calls of translate_text, one after
\* the other, with a steady transcription provider.
NextService ==
    \/ ChunkBegin
    \/ TranslateBegin
    \/ TranscribeSteady
    \/ DetectLanguage
    \/ TranslateAttempt
    \/ TranscriptionExpires
    \/ TranslationExpires

SpecService == InitService /\ [][NextService]_vars

\* Calls of transcribe_audio, one after the other, with every failure of the
\* transcription provider.
NextRetry ==
    \/ TranscribeBegin
    \/ TranscribeAttempt
    \/ TranscriptionExpires

SpecRetry == InitService /\ [][NextRetry]_vars

\* ------------------------------------------------------------------ caches with timestamps
\* a cache is the sequence of its entries [key, value, timestamp] in dict
\* order (the order in which the keys were inserted)

\* the hashes that are looked up and stored, and the values stored
CacheKeys == {1, 1001, 1002}
CacheValues == {"hola"}

\* seconds between two readings of datetime.now()
Elapsed == {3599, 3600}

\* the position of a key in a cache, 0 when the key is absent
IndexOf(entries, key) ==
    IF \E i \in 1..Len(entries) : entries[i].key = key
    THEN CHOOSE i \in 1..Len(entries) : entries[i].key = key
    ELSE 0

\* key=lambda x: x[1][1]
OlderThan(a, b) == a.timestamp < b.timestamp

\* a cut that keeps the oldest entries
OldestOf(entries, limit) == SubSeq(SortSeq(entries, OlderThan), 1, limit)

\* dict(sorted(self.cache.items(), key=...)[-1000:]); sorted is stable
NewestOf(entries, limit) ==
    LET sorted_cache == SortSeq(entries, OlderThan) IN
    SubSeq(sorted_cache, Len(sorted_cache) - limit + 1, Len(sorted_cache))

\* self.cache[key] = (value, datetime.now()), then the limit of the size
Put(entries, key, value, time) ==
    LET i == IndexOf(entries, key)
        e == [key |-> key, value |-> value, timestamp |-> time]
        stored == IF i = 0 THEN Append(entries, e) ELSE [entries EXCEPT ![i] = e]
    IN
    IF Len(stored) > cache_limit THEN NewestOf(stored, cache_limit) ELSE stored

\* del self.cache[key]
Delete(entries, key) == SelectSeq(entries, LAMBDA e : e.key # key)

\* an entry that is served at the age of cache_ttl
FreshAtTtl(age) == age <= cache_ttl

\* age.total_seconds() < settings.cache_ttl
Fresh(age) == age < cache_ttl

\* _cache_transcription / _cache_translation
CachePut(service) ==
    /\ cacheLog.stores < MaxStores
    /\ \E key \in CacheKeys, value \in CacheValues :
         /\ caches' = IF svcConfig.enable_translation_cache
                      THEN [caches EXCEPT ![service] = Put(@, key, value, now)]
                      ELSE caches
         /\ cacheLog' = [cacheLog EXCEPT
                            !.stores = @ + 1,
                            !.last = [op |-> "store", service |-> service,
                                      key |-> key]]
    /\ UNCHANGED <<appVars, svcVars, now, connVars, rtVars>>

\* _get_cached_transcription / _get_cached_translation
CacheGet(service) ==
    /\ cacheLog.lookups < MaxLookups
    /\ \E key \in CacheKeys :
         LET i == IndexOf(caches[service], key)
             age == IF i = 0 THEN 0 ELSE now - caches[service][i].timestamp
             hit == i # 0 /\ Fresh(age)
             count(field) ==
                 [svcStats EXCEPT ![service] = [@ EXCEPT ![field] = @ + 1]]
         IN
         IF ~svcConfig.enable_translation_cache
         THEN /\ cacheLog' = [cacheLog EXCEPT
                                 !.lookups = @ + 1,
                                 !.last = [op |-> "lookup", service |-> service,
                                           key |-> key, found |-> FALSE,
                                           age |-> 0, returned |-> "None"]]
              /\ UNCHANGED <<caches, svcStats>>
         ELSE /\ caches' = IF i # 0 /\ ~hit
                          THEN [caches EXCEPT ![service] = Delete(@, key)]
                          ELSE caches
              /\ svcStats' = IF hit THEN count("cache_hits")
                                    ELSE count("cache_misses")
              /\ cacheLog' = [cacheLog EXCEPT
                                 !.lookups = @ + 1,
                                 !.last = [op |-> "lookup", service |-> service,
                                           key |-> key, found |-> i # 0,
                                           age |-> age,
                                           returned |-> IF hit
                                                        THEN caches[service][i].value
                                                        ELSE "None"]]
    /\ UNCHANGED <<appVars, svcConfig, transcription_cache, translation_cache,
                   call, done, now, connVars, rtVars>>

\* time passes between two operations on a cache
ClockAdvances ==
    /\ cacheLog.ticks < MaxTicks
    /\ \E d \in Elapsed : now' = now + d
    /\ cacheLog' = [cacheLog EXCEPT !.ticks = @ + 1]
    /\ UNCHANGED <<appVars, svcVars, caches, connVars, rtVars>>

NextCache ==
    \/ \E service \in Services : CachePut(service)
    \/ \E service \in Services : CacheGet(service)
    \/ ClockAdvances

\* the caches from the start of the services, with and without caching
InitCache ==
    /\ TranslatorInit(TRUE, TRUE)
    /\ \E enabled \in BOOLEAN :
         ServiceInit([transcription_client |-> TRUE, translation_client |-> TRUE,
                      enable_translation_cache |-> enabled])

SpecCache == InitCache /\ [][NextCache]_vars

\* the entries of n stores under n keys, one second after the other
Filled(n) == [k \in 1..n |-> [key |-> k, value |-> "hola", timestamp |-> k]]

\* one of the caches is full, or one entry short of it
InitCacheFull ==
    /\ TranslatorInit(TRUE, TRUE)
    /\ ServiceFields(DefaultServices)
    /\ StreamingInit
    /\ RealtimeInit
    /\ \E service \in Services, n \in {cache_limit - 1, cache_limit} :
         CacheInit([s \in Services |-> IF s = service THEN Filled(n) ELSE <<>>], n)

\* the stores into the cache that is full, and the clock
NextCacheFull ==
    \/ \E service \in Services :
          CachePut(service) /\ Len(caches[service]) >= cache_limit - 1
    \/ ClockAdvances

SpecCacheFull == InitCacheFull /\ [][NextCacheFull]_vars

\* ------------------------------------------------------------------ StreamingService
\* heartbeat_age of connection_metadata is time.time() - last_heartbeat in
\* seconds, counted as far as one second beyond the limit of the monitor.

\* seconds an iteration of heartbeat_monitor takes: asyncio.sleep of the
\* heartbeat interval, and up to a second more until the check
SleepTimes == {websocket_heartbeat_interval, websocket_heartbeat_interval + 1}

\* a limit of three intervals
StaleAfterThree(age) == age > websocket_heartbeat_interval * 3

\* time.time() - last_heartbeat > settings.websocket_heartbeat_interval * 2
Stale(age) == age > websocket_heartbeat_interval * 2

\* the heartbeat age after d more seconds
Aged(age, d) ==
    IF age + d > websocket_heartbeat_interval * 2
    THEN websocket_heartbeat_interval * 2 + 1
    ELSE age + d

\* disconnect(client_id): both entries are removed if present; the counter
\* is decremented in any case
Disconnect(c) ==
    /\ active_connections' = active_connections \ {c}
    /\ connection_metadata' = [connection_metadata EXCEPT ![c] = NoMetadata]
    /\ stream_stats' = [stream_stats EXCEPT !.active_connections = @ - 1]

\* send_message raises inside send_json and its handler disconnects the client
SendFails(c) == c \in active_connections /\ conn[c].socket = "broken"

\* connect(), the creation of the heartbeat task and the status message
Connect(c) ==
    /\ conn[c].handler = "none"
    /\ active_connections' = active_connections \cup {c}
    /\ connection_metadata' =
           [connection_metadata EXCEPT ![c] = [present |-> TRUE, heartbeat_age |-> 0]]
    /\ stream_stats' = [stream_stats EXCEPT !.total_connections = @ + 1,
                                            !.active_connections = @ + 1]
    /\ conn' = [conn EXCEPT ![c] = [NoConnection EXCEPT !.handler = "loop",
                                                        !.monitor = "sleep",
                                                        !.socket = "open"]]
    /\ UNCHANGED <<appVars, svcVars, cacheVars, rtVars>>

\* One iteration of heartbeat_monitor: the sleep, the ping, the check for a
\* stale connection, and the test of the loop.
HeartbeatCheck(c) ==
    /\ conn[c].monitor = "sleep"
    /\ \E d \in SleepTimes :
         LET meta == connection_metadata[c]
             age == Aged(meta.heartbeat_age, d)
             pingFails == SendFails(c)
             checked == meta.present /\ ~pingFails
             stale == checked /\ Stale(age)
             connected == c \in active_connections /\ ~pingFails /\ ~stale
         IN
         /\ IF pingFails \/ stale
            THEN Disconnect(c)
            ELSE /\ connection_metadata' =
                        IF meta.present
                        THEN [connection_metadata EXCEPT ![c].heartbeat_age = age]
                        ELSE connection_metadata
                 /\ UNCHANGED <<active_connections, stream_stats>>
         /\ conn' = [conn EXCEPT
                        ![c].monitor = IF connected THEN "sleep" ELSE "done",
                        ![c].seen = IF checked THEN age ELSE -1,
                        ![c].dropped = IF pingFails THEN "send failure"
                                       ELSE IF stale THEN "heartbeat timeout"
                                       ELSE @]
    /\ UNCHANGED <<appVars, svcVars, cacheVars, rtVars>>

\* the kinds of message a client sends
MessageTypes == {"pong", "audio"}

\* The message loop receives a message and handle_client_message handles it:
\* a pong sets last_heartbeat; an audio message goes through
\* process_audio_chunk, which calls the providers, and the response is sent
\* if the client is still in active_connections.
Receive(c, message_type) ==
    /\ conn[c].handler = "loop"
    /\ conn[c].socket = "open"
    /\ stream_stats.total_messages < MaxMessages
    /\ message_type = "pong" => conn[c].answers
    /\ connection_metadata' =
           IF message_type = "pong" /\ connection_metadata[c].present
           THEN [connection_metadata EXCEPT ![c].heartbeat_age = 0]
           ELSE connection_metadata
    /\ conn' = IF message_type = "audio"
               THEN [conn EXCEPT ![c].requests = @ + 1]
               ELSE conn
    /\ stream_stats' = [stream_stats EXCEPT !.total_messages = @ + 1]
    /\ UNCHANGED <<appVars, svcVars, cacheVars, active_connections, rtVars>>

\* the client no longer answers the pings of the service
StopsAnswering(c) ==
    /\ conn[c].handler = "loop"
    /\ conn[c].answers
    /\ conn' = [conn EXCEPT ![c].answers = FALSE]
    /\ UNCHANGED <<appVars, svcVars, cacheVars, active_connections,
                   connection_metadata, stream_stats, rtVars>>

\* the websocket no longer takes what the service sends
SocketBreaks(c) ==
    /\ conn[c].handler = "loop"
    /\ conn[c].socket = "open"
    /\ conn' = [conn EXCEPT ![c].socket = "broken"]
    /\ UNCHANGED <<appVars, svcVars, cacheVars, active_connections,
                   connection_metadata, stream_stats, rtVars>>

\* receive_json raises (the client has closed the websocket, or an error):
\* the finally clause cancels the heartbeat task and calls disconnect
ClientCloses(c) ==
    /\ conn[c].handler = "loop"
    /\ Disconnect(c)
    /\ conn' = [conn EXCEPT
                   ![c].handler = "done",
                   ![c].monitor = IF @ = "sleep" THEN "cancelled" ELSE @]
    /\ UNCHANGED <<appVars, svcVars, cacheVars, rtVars>>

NextStreaming ==
    \E c \in Clients :
        \/ Connect(c)
        \/ HeartbeatCheck(c)
        \/ \E message_type \in MessageTypes : Receive(c, message_type)
        \/ StopsAnswering(c)
        \/ SocketBreaks(c)
        \/ ClientCloses(c)

SpecStreaming == Init /\ [][NextStreaming]_vars

\* every heartbeat task runs: the event loop ends each of its sleeps
SpecHeartbeat ==
    SpecStreaming /\ \A c \in Clients : WF_vars(HeartbeatCheck(c))

\* ------------------------------------------------------------------ websocket_translate
\* RealtimeTranslationService.__init__: the speech detection parameters
RealtimeProfile ==
    [silence_threshold |-> 25, min_speech_chunks |-> 10,
     max_recording_duration |-> 5]

\* lengths of the runs of speech chunks / of other chunks a client sends
RtSpeechRuns == {4, 10}
RtSilenceRuns == {3, 25}

\* The client sends the next run of audio messages.
RtSource ==
    /\ rtSrc.left = 0
    /\ rtSrc.runs < MaxRuns
    /\ \E sp \in BOOLEAN :
         /\ rtSrc.runs > 0 => sp # rtSrc.speech
         /\ \E n \in (IF sp THEN RtSpeechRuns ELSE RtSilenceRuns) :
              rtSrc' = [speech |-> sp, left |-> n, runs |-> rtSrc.runs + 1]
    /\ UNCHANGED <<appVars, svcVars, cacheVars, connVars, rt, rtLog>>

\* not is_recording and speech_chunks >= service.min_speech_chunks
StartsRecording(recording, speech) ==
    ~recording /\ speech >= RealtimeProfile.min_speech_chunks

\* One iteration of the message loop on an audio message: the chunk is
\* classified, counted and buffered, and the recording is closed on silence
\* or when time.time() - recording_start exceeds max_recording_duration
\* (late; not in the iteration that has just set recording_start), which
\* hands the buffer to process_audio_chunk.
RtChunk ==
    /\ rtSrc.left > 0
    /\ \E late \in BOOLEAN :
         LET audio_bytes == rtLog.received + 1
             is_speech == rtSrc.speech
             speech == IF is_speech THEN rt.speech_chunks + 1
                                    ELSE rt.speech_chunks
             silence == IF is_speech THEN 0 ELSE rt.silence_chunks + 1
             starts == is_speech /\ StartsRecording(rt.is_recording, speech)
             recording == rt.is_recording \/ starts
             audio_buffer == IF recording
                             THEN Append(IF starts THEN <<>> ELSE rt.audio_buffer,
                                         audio_bytes)
                             ELSE rt.audio_buffer
             closes == /\ ~is_speech
                       /\ rt.is_recording
                       /\ silence >= RealtimeProfile.silence_threshold
             forced == ~closes /\ rt.is_recording /\ late
             spoken == IF is_speech THEN Append(rtLog.spoken, audio_bytes)
                                    ELSE rtLog.spoken
             counted == IF is_speech /\ ~rt.is_recording
                        THEN Append(rtLog.counted, audio_bytes)
                        ELSE rtLog.counted
         IN
         IF closes \/ forced
         THEN /\ rt' = [audio_buffer |-> <<>>, speech_chunks |-> 0,
                        silence_chunks |-> 0, is_recording |-> FALSE]
              /\ rtLog' = [received |-> audio_bytes, spoken |-> <<>>,
                           counted |-> <<>>,
                           calls |-> Append(rtLog.calls,
                                            [full_audio |-> audio_buffer,
                                             spoken |-> spoken,
                                             counted |-> counted,
                                             forced |-> forced])]
         ELSE /\ rt' = [audio_buffer |-> audio_buffer,
                        speech_chunks |-> speech,
                        silence_chunks |-> silence,
                        is_recording |-> recording]
              /\ rtLog' = [rtLog EXCEPT !.received = audio_bytes,
                                        !.spoken = spoken,
                                        !.counted = counted]
    /\ rtSrc' = [rtSrc EXCEPT !.left = @ - 1]
    /\ UNCHANGED <<appVars, svcVars, cacheVars, connVars>>

NextRealtime ==
    \/ RtSource
    \/ RtChunk

SpecRealtime == Init /\ [][NextRealtime]_vars

\* ------------------------------------------------------------------ properties
\* the frames first..last of the stream
Interval(first, last) == [k \in 1..(last - first + 1) |-> first + k - 1]

\* the last close started a pipeline thread on the closed buffer
LastCloseStartedThread ==
    /\ threads # <<>>
    /\ threads[Len(threads)].audio = lastClose.buffer

\* some pipeline thread works on the buffer of the last close
LastCloseHandedOver ==
    \E i \in 1..Len(threads) : threads[i].audio = lastClose.buffer

\* the state right after process_audio closed an utterance
JustClosed == lastClose.kind # "none" /\ lastClose.at = framesRead

\* the input so far is speech^a silence^b, evaluated under the initial profile
OnlyFed(a, b) ==
    /\ ui.presses = 0
    /\ fed = <<<<TRUE, a>>, <<FALSE, b>>>>

\* C1: process_audio never hands a buffer with fewer frames than
\* min_speech_chunks (as read at the close) to a pipeline thread, on the forced
\* and on the silence path: a thread is started on a closed buffer exactly when
\* the buffer has more than min_speech_chunks frames, and a buffer that fails
\* the check is handed to no thread.
C1_EmittedBuffersLongEnough ==
    lastClose.kind # "none" =>
        /\ LastCloseHandedOver <=> Len(lastClose.buffer) > lastClose.min_speech_chunks
        /\ lastClose.emitted <=> LastCloseHandedOver

\* C1 witness: a forced close under the Accurate thresholds started a thread.
C1_Witness ==
    /\ lastClose.kind = "forced"
    /\ lastClose.min_speech_chunks = 15
    /\ LastCloseStartedThread

\* C2: under the Balanced profile, 5 speech frames followed by 30 silence
\* frames cause no buffer to be emitted.
C2_ScenarioB_NothingEmitted ==
    OnlyFed(5, 30) => threads = <<>>

\* C3 as stated: under the Balanced profile, 12 speech frames followed by 30
\* silence frames emit exactly one buffer, and it contains 42 frames.
C3_ScenarioA_FortyTwoFrames ==
    OnlyFed(12, 30) => Len(threads) = 1 /\ Len(threads[1].audio) = 42

\* C3 amended: under the Balanced profile, 12 speech frames followed by 30
\* silence frames emit exactly one buffer; it is closed by the 26th silence
\* frame and contains frames 1..38, and the last 4 silence frames are dropped.
C3_ScenarioA_ThirtyEightFrames ==
    /\ OnlyFed(12, 30) =>
          /\ Len(threads) = 1
          /\ threads[1].audio = Interval(1, 38)
          /\ frames = <<>>
    /\ \A b \in 1..36 :
          OnlyFed(12, b) => (Len(threads) = 1 <=> b >= 26) /\ Len(threads) <= 1

\* C3 witness: the scenario has been fed and one thread holds the buffer.
C3_Witness ==
    /\ OnlyFed(12, 30)
    /\ Len(threads) = 1

\* the input so far is n speech frames, evaluated under the initial profile
OnlySpeechFed(n) ==
    /\ ui.presses = 0
    /\ fed = <<<<TRUE, n>>>>

\* C4 as stated: under the Balanced profile, continuous speech is force-closed
\* first when frame 166 is appended, and the next buffer starts with frame 167.
C4_ScenarioC_ForcedAt166 ==
    \A n \in 1..240 :
        OnlySpeechFed(n) =>
            /\ n < 166 => threads = <<>>
            /\ n >= 166 => threads # <<>> /\ threads[1].audio = Interval(1, 166)
            /\ n = 200 => frames # <<>> /\ frames[1] = 167

\* C4 amended: under the Balanced profile, continuous speech is force-closed
\* first when frame 100 is appended (speech_timeout = 100 is reached before the
\* 5 s maximum), and the next buffer starts with frame 101; a run of 200 speech
\* frames is emitted as frames 1..100 and frames 101..200.
C4_ScenarioC_ForcedAt100 ==
    \A n \in 1..240 :
        OnlySpeechFed(n) =>
            /\ n < 100 => threads = <<>> /\ frames = Interval(1, n)
            /\ n >= 100 => threads # <<>> /\ threads[1].audio = Interval(1, 100)
            /\ (n > 100 /\ n < 200) => Len(threads) = 1 /\ frames = Interval(101, n)
            /\ n = 200 => /\ Len(threads) = 2
                          /\ threads[2].audio = Interval(101, 200)
                          /\ frames = <<>>

\* C4 witness: 200 speech frames have been fed and two buffers were emitted.
C4_Witness ==
    /\ OnlySpeechFed(200)
    /\ Len(threads) = 2

\* C5: no buffer is still open after a speech frame has taken its total
\* length (speech frames plus retained silence frames) past
\* max_recording_duration.
C5_ClosedAtMaxDuration ==
    (frames # <<>> /\ silent_chunks = 0) =>
        ~(Len(frames) * chunk_size > max_recording_duration * sample_rate)

\* the current run of speech frames, as [n |-> its length so far]
SpeechRun ==
    IF fed # <<>> /\ fed[Len(fed)][1] THEN fed[Len(fed)][2] ELSE 0

\* a forced close within the current run of speech frames started a thread
ForcedEmissionInRun ==
    /\ lastClose.kind = "forced"
    /\ lastClose.at > framesRead - SpeechRun
    /\ LastCloseHandedOver

\* C6: for every profile and from every segmenter state, an unbroken run of
\* speech frames longer than max_recording_duration / 30 ms has produced a
\* forced emission before it ends.
C6_LongRunForcesEmission ==
    (ui.pc = 0 /\ SpeechRun * chunk_size > max_recording_duration * sample_rate)
        => ForcedEmissionInRun

\* C6 witness: under Accurate, a run of more than 233 speech frames that began
\* while an utterance was being recorded.
C6_Witness ==
    /\ sensitivity_mode = "Accurate"
    /\ ui.pc = 0
    /\ Len(fed) = 3
    /\ SpeechRun > 233
    /\ ForcedEmissionInRun

AllDone == \A i \in 1..Len(threads) : threads[i].pc = "done"

RECURSIVE SumOver(_, _)
\* the sum of a field over the entries of the history
SumOver(h, field) ==
    IF h = <<>> THEN 0 ELSE h[1][field] + SumOver(Tail(h), field)

\* C8: the statistics updates of concurrently completing invocations are
\* serialized: once all invocations have returned, total_translations and
\* api_calls equal the number of history entries appended, and total_words and
\* total_latency equal the sums over those entries.
C8_StatsUpdatesNotLost ==
    AllDone =>
        /\ stats.total_translations = Len(history)
        /\ stats.api_calls = Len(history)
        /\ stats.total_words = SumOver(history, "words")
        /\ stats.total_latency = SumOver(history, "latency")

\* the pipeline threads that ran on the audio an entry was transcribed from
ThreadsOf(entry) ==
    {i \in 1..Len(threads) : entry.original = Transcription(threads[i].audio)}

\* the frames of a buffer
FramesOf(buf) == {buf[k] : k \in 1..Len(buf)}

\* the pipeline threads started by process_audio
Emitted == {i \in 1..Len(threads) : threads[i].origin = "segmenter"}

\* no history entry appears twice
NoDuplicateEntry ==
    \A k1, k2 \in 1..Len(history) :
        ThreadsOf(history[k1]) \cap ThreadsOf(history[k2]) # {} => k1 = k2

C9_FourUtterancesComplete ==
    /\ AllDispatched ~> (AllDispatched /\ AllDone)
    /\ []((AllDispatched /\ AllDone) =>
            /\ Len(history) = Utterances
            /\ \A i \in 1..Utterances :
                 \E k \in 1..Len(history) : ThreadsOf(history[k]) = {i})
    /\ [][history' # history =>
            \E i \in 1..Len(threads) :
                /\ threads[i].pc = "append"
                /\ threads'[i].pc = "finish"
                /\ history' = Append(history, HistoryEntry(threads[i], target_lang))]_vars

\* C9 witness: all four have completed, and the fourth waited for a worker
\* while three translations were running.
C9_Witness ==
    /\ AllDispatched
    /\ AllDone
    /\ Len(history) = Utterances
    /\ Len(jobs) = Utterances
    /\ history[1].original # Transcription(threads[1].audio)

\* the latest pipeline thread, started by the step just taken
Started(ts) == ts[Len(ts)]

\* C11: once process_audio has handed a buffer to a pipeline thread the buffer
\* never changes: the audio of a thread is exactly the frames recorded up to
\* the close, it stays what it was at the hand-off, and the frames that arrive
\* afterwards go into a new, empty buffer that shares no frame with it.
C11_EmittedBufferNeverChanges ==
    /\ [](\A i \in Emitted :
            /\ FramesOf(frames) \cap FramesOf(threads[i].audio) = {}
            /\ \A k \in FramesOf(frames) :
                 k > threads[i].audio[Len(threads[i].audio)])
    /\ [][/\ Len(threads') >= Len(threads)
          /\ \A i \in 1..Len(threads) : threads'[i].audio = threads[i].audio
          /\ (Len(threads') > Len(threads) /\ Started(threads').origin = "segmenter") =>
                /\ Started(threads').audio = Append(frames, framesRead')
                /\ frames' = <<>>]_vars

\* C11 witness: a pipeline thread is at work on its buffer while process_audio
\* fills the next one.
C11_Witness ==
    /\ frames # <<>>
    /\ \E i \in Emitted : threads[i].pc \notin {"start", "done"}

\* the invocations that have not returned
InFlight == {i \in 1..Len(threads) : threads[i].pc # "done"}

\* C12: the hand-off does not block process_audio: the step that starts a
\* pipeline thread performs no step of the invocation and touches no other
\* thread, and whenever the stream has a frame process_audio can take it,
\* whatever the invocations in flight are doing.
C12_HandOffDoesNotBlock ==
    /\ [](src.left > 0 => ENABLED ProcessFrame)
    /\ [][(Len(threads') > Len(threads) /\ Started(threads').origin = "segmenter") =>
             /\ Started(threads').pc = "start"
             /\ \A i \in 1..Len(threads) : threads'[i] = threads[i]
             /\ UNCHANGED <<is_processing, history, jobs>>]_vars

\* C12 witness: a second utterance has been emitted while the first one is
\* waiting for its transcription or its translation.
C12_Witness ==
    /\ Len(threads) = 2
    /\ Emitted = {1, 2}
    /\ threads[1].pc \in {"transcribe", "await"}
    /\ threads[2].pc = "start"
    /\ lastClose.buffer = threads[2].audio

\* C13: a change of the target language made while an invocation is in flight
\* does not affect it: the language of its translation request and the
\* target_lang of its history entry are the language that was active when the
\* utterance was dispatched.
C13_InFlightKeepsLanguage ==
    /\ \A i \in 1..Len(threads) :
          (threads[i].job # 0 /\ jobs[threads[i].job].lang # NoLang) =>
              jobs[threads[i].job].lang = threads[i].lang
    /\ \A k \in 1..Len(history) : \A i \in ThreadsOf(history[k]) :
          history[k].target_lang = threads[i].lang

\* the statistics agree with the history
StatsMatchHistory ==
    /\ stats.total_translations = Len(history)
    /\ stats.api_calls = Len(history)
    /\ stats.total_words = SumOver(history, "words")
    /\ stats.total_latency = SumOver(history, "latency")

\* C16: the 'c' key is atomic with respect to a completing invocation: no
\* invocation whose transcription returned a text ends in an error handler,
\* and once the invocation has returned and the clear is over, its statistics
\* update and its history entry are either all there or all cleared.
C16_ClearIsAtomic ==
    /\ \A i \in 1..Len(threads) :
          threads[i].text # NoText => threads[i].pc \notin {"err_r", "err_w"}
    /\ (AllDone /\ ui.pc = 0) => StatsMatchHistory

\* C17: after the 'c' key, with no invocation in flight, every accumulating
\* counter is back at its initial value.
C17_ClearResetsCounters ==
    (ui.key = "c" /\ ui.pc = 0 /\ threads = ui.seen /\ AllDone) =>
        \A key \in {"total_translations", "total_words", "total_latency",
                    "avg_latency", "min_latency", "peak_latency",
                    "api_calls", "api_errors"} :
            stats[key] = InitialStats[key]

\* the thresholds process_audio evaluates a frame against
Thresholds(p) ==
    <<p.silence_threshold, p.min_speech_chunks, p.max_recording_duration,
      p.speech_timeout, p.sensitivity_mode>>

\* the thresholds in force
CurrentThresholds ==
    <<silence_threshold, min_speech_chunks, max_recording_duration,
      speech_timeout, sensitivity_mode>>

\* C14: a profile selection is atomic for process_audio: every frame is
\* evaluated against the thresholds of one profile, never against a mixture
\* of two.
C14_ProfileAppliedAtomically ==
    [][framesRead' # framesRead =>
          \E key \in SensitivityKeys : CurrentThresholds = Thresholds(ProfileOf(key))]_vars

\* C15: a profile swap made while an utterance is being recorded does not
\* close the utterance earlier than the profile it was opened under: when the
\* stream so far is one run of speech (shorter than the speech timeout of the
\* initial profile) and one run of silence, and the only key was pressed
\* between the two, the utterance is closed by silence only, and not before
\* the silence threshold of the initial profile is exceeded.
C15_SwapKeepsOpenUtterance ==
    ( /\ Len(fed) = 2
      /\ fed[1][1]
      /\ fed[1][2] < InitialProfile.speech_timeout
      /\ ui.presses = 1
      /\ ui.at = fed[1][2]
      /\ lastClose.kind # "none" ) =>
        /\ lastClose.kind = "silence"
        /\ Len(lastClose.buffer) >= fed[1][2] + InitialProfile.silence_threshold + 1

\* C18: the history is a bounded FIFO of capacity history_maxlen: it never
\* holds more entries, it changes only by the append of a completing
\* invocation, which puts its entry at the end exactly once, and an append to
\* a full history evicts exactly the oldest entry.
C18_HistoryBoundedFifo ==
    /\ [](Len(history) <= history_maxlen)
    /\ [][history' # history =>
            \E i \in 1..Len(threads) :
                /\ threads[i].pc = "append"
                /\ threads'[i].pc = "finish"
                /\ history' =
                     Append(IF Len(history) = history_maxlen THEN Tail(history) ELSE history,
                            HistoryEntry(threads[i], target_lang))]_vars

\* C18 witness: two completions after the 99th have filled the history and
\* evicted the entry of the first utterance.
C18_Witness ==
    /\ Len(history) = history_maxlen
    /\ Len(threads) = history_maxlen + 1
    /\ AllDone
    /\ history[1] = HistoryEntry(DoneThread(2), "zh")
    /\ ThreadsOf(history[history_maxlen]) \subseteq {history_maxlen, history_maxlen + 1}

\* SessionAfter describes states the pipeline produces: violated under
\* SpecPipe, which reaches the session of two utterances.
NoSessionOfTwo == ~SessionAfter(2)

\* the Translate call of invocation i failed for it: the invocation has left
\* result(timeout=3) and its request has still not returned, or has raised
\* (_translate_text then returns the text itself)
TranslateFailed(i) ==
    /\ threads[i].job # 0
    /\ threads[i].pc # "await"
    /\ \/ jobs[threads[i].job].st # "done"
       \/ jobs[threads[i].job].result = jobs[threads[i].job].text

\* C19: when the Translate call of an utterance times out or raises, the
\* invocation goes on without waiting for it: a waiting invocation whose
\* request has not returned can always take the timeout, its translated text is
\* the original transcription, the history entry it appends has translated =
\* original, and when every invocation has returned is_processing is clear.
C19_TranslateFailureFallsBack ==
    /\ \A i \in 1..Len(threads) :
          /\ (threads[i].pc = "await" /\ jobs[threads[i].job].st # "done") =>
                ENABLED TranslationTimedOut(i)
          /\ TranslateFailed(i) =>
                /\ threads[i].translated = threads[i].text
                /\ threads[i].pc \in {"finish", "done"} =>
                      \E k \in 1..Len(history) :
                          /\ ThreadsOf(history[k]) = {i}
                          /\ history[k].translated = history[k].original
    /\ AllDone => ~is_processing

\* C19 witness: an invocation has returned with its entry in the history
\* while its translation request is still running.
C19_Witness ==
    \E i \in 1..Len(threads) :
        /\ threads[i].pc = "done"
        /\ TranslateFailed(i)
        /\ jobs[threads[i].job].st = "running"
        /\ \E k \in 1..Len(history) : ThreadsOf(history[k]) = {i}

\* C20: whenever Translate fails for an utterance (exception in
\* _translate_text or the 3 s timeout), api_errors is incremented for it.
C20_TranslateFailureCounted ==
    (AllDone /\ \E i \in 1..Len(threads) : TranslateFailed(i)) =>
        stats.api_errors > 0

\* the invocations whose transcription request raised, returned an empty text,
\* returned a text
Failed == {i \in 1..Len(threads) :
              threads[i].requests > 0 /\ threads[i].text = NoText}
Empty == {i \in 1..Len(threads) : threads[i].text = EmptyText}
Texted == {i \in 1..Len(threads) : threads[i].text \notin {NoText, EmptyText}}

\* invocation i has no entry in the history
NoEntryOf(i) == \A k \in 1..Len(history) : i \notin ThreadsOf(history[k])

\* only invocations whose transcription returned a text are counted in
\* api_calls and total_translations and have an entry in the history
OnlyTextCounted ==
    /\ stats.api_calls <= Cardinality(Texted)
    /\ stats.total_translations <= Cardinality(Texted)
    /\ Len(history) <= Cardinality(Texted)

C22_EmptyTextIsNoError ==
    /\ \A i \in Empty :
          /\ threads[i].pc = "done"
          /\ threads[i].requests = 1
          /\ threads[i].job = 0
          /\ NoEntryOf(i)
    /\ Len(jobs) <= Cardinality(Texted)
    /\ stats.api_calls <= Cardinality(Texted)
    /\ stats.total_translations <= Cardinality(Texted)
    /\ Failed = {} => stats.api_errors = 0
    /\ (AllDone /\ Empty # {} /\ Texted = {}) =>
          /\ stats.api_calls = 0
          /\ stats.total_translations = 0
          /\ stats.total_words = 0
          /\ history = <<>>
          /\ ~is_processing

\* C22 witness: an invocation has returned on an empty text next to one that
\* completed, and no error was counted.
C22_Witness ==
    /\ AllDone
    /\ Cardinality(Empty) = 1
    /\ Cardinality(Texted) = 1
    /\ Len(history) = 1
    /\ stats.api_errors = 0

\* the counters an invocation of transcribe_with_fireworks writes
InvocationCounters ==
    {"total_translations", "total_words", "total_latency", "avg_latency",
     "peak_latency", "min_latency", "api_calls", "api_errors",
     "fireworks_savings", "processing_speed", "languages_used"}

\* C23: while no transcription client is configured every invocation returns
\* at once: it sends no transcription request and no translation request,
\* appends nothing to the history, leaves every counter it would write at its
\* initial value, and is_processing is clear when it has returned.
C23_NoClientNoProcessing ==
    ~fireworks_client =>
        /\ \A i \in 1..Len(threads) :
              /\ threads[i].pc \in {"start", "done"}
              /\ threads[i].requests = 0
              /\ threads[i].job = 0
              /\ threads[i].text = NoText
        /\ history = <<>>
        /\ jobs = <<>>
        /\ \A key \in InvocationCounters : stats[key] = InitialStats[key]
        /\ AllDone => ~is_processing

\* C23 witness: two invocations, one of an emitted buffer, have returned
\* without a client.
C23_Witness ==
    /\ ~fireworks_client
    /\ Len(threads) = 2
    /\ Emitted # {}
    /\ AllDone

\* C24: after the quit command has set is_running to False, process_audio
\* starts no further pipeline thread.
C24_NoEmissionAfterQuit ==
    ~is_running => threads = ui.seen

\* the capture stream delivered a frame that is in no buffer and was not
\* classified
FrameDropped == framesRead > SumOver(fed, 2)

ProfileOrder == <<"+", "=", "0", "-">>

\* the thresholds of a profile together with its amplitude floor
AllThresholds(p) ==
    <<p.silence_threshold, p.min_speech_chunks, p.max_recording_duration,
      p.speech_timeout, amplitude_threshold(p.sensitivity_mode)>>

\* every threshold of a is at most the same threshold of b
AtMost(a, b) == \A k \in 1..Len(a) : a[k] <= b[k]

\* C29: the built-in profiles are ordered Hyper-Speed <= Ultra-Fast <=
\* Balanced <= Accurate in silence_threshold, min_speech_chunks,
\* max_recording_duration, speech_timeout and the amplitude floor, and
\* Accurate has the largest value of each; so whatever profile has been
\* selected, the thresholds in force lie between those of Hyper-Speed and
\* those of Accurate.
C29_ProfilesOrdered ==
    /\ [k \in 1..Len(ProfileOrder) |-> ProfileOf(ProfileOrder[k]).sensitivity_mode]
          = <<"Hyper-Speed", "Ultra-Fast", "Balanced", "Accurate">>
    /\ \A k \in 1..(Len(ProfileOrder) - 1) :
          AtMost(AllThresholds(ProfileOf(ProfileOrder[k])),
                 AllThresholds(ProfileOf(ProfileOrder[k + 1])))
    /\ \A key \in SensitivityKeys :
          AtMost(AllThresholds(ProfileOf(key)), AllThresholds(ProfileOf("-")))
    /\ ui.pc = 0 =>
          /\ \E key \in SensitivityKeys : CurrentThresholds = Thresholds(ProfileOf(key))
          /\ AtMost(AllThresholds(ProfileOf("+")),
                    <<silence_threshold, min_speech_chunks, max_recording_duration,
                      speech_timeout, amplitude_threshold(sensitivity_mode)>>)
          /\ AtMost(<<silence_threshold, min_speech_chunks, max_recording_duration,
                      speech_timeout, amplitude_threshold(sensitivity_mode)>>,
                    AllThresholds(ProfileOf("-")))

\* C29 witness: the user has selected Accurate and its thresholds are in force.
C29_Witness ==
    /\ ui.pc = 0
    /\ ui.presses = 1
    /\ CurrentThresholds = Thresholds(ProfileOf("-"))
    /\ framesRead > ui.at

\* the service calls of kind op that have returned
Calls(op) == {k \in 1..Len(done) : done[k].op = op}

C27_SecondRunFromCache ==
    \A j, k \in Calls("chunk") :
        ( /\ j < k
          /\ done[j].audio = done[k].audio
          /\ done[j].target = done[k].target
          /\ done[j].result.kind = "TranslationResponse"
          /\ done[k].warm ) =>
            /\ done[k].result = done[j].result
            /\ done[k].sent = ZeroSent

\* C28: a translation failure is not fatal to the chunk: whenever the
\* transcription of a chunk is a non-empty text, process_audio_chunk returns a
\* TranslationResponse, whose translation is the transcription when
\* translate_text failed and the provider's translation otherwise.
C28_TranslationFailureNotFatal ==
    \A k \in Calls("chunk") :
        done[k].text # <<>> =>
            /\ done[k].result.kind = "TranslationResponse"
            /\ done[k].result.translation \in
                  {done[k].text, GeminiTranslation(done[k].text, done[k].target)}

\* the attempts of transcribe_audio in call c follow the retry rule: at most
\* max_retries provider requests, one per attempt at most, and every attempt
\* but the last one raised APIConnectionError or RateLimitError
RetryRule(c) ==
    /\ c.sent.transcribe <= max_retries
    /\ Len(c.errors) <= max_retries
    /\ c.sent.transcribe <= Len(c.errors) + 1
    /\ \A n \in 1..(Len(c.errors) - 1) : c.errors[n] \in Retryable

\* C30: transcribe_audio sends at most max_retries provider requests per
\* call; a further attempt is made only after an APIConnectionError or a
\* RateLimitError; any other error reaches the caller from the attempt that
\* raised it; an error raised by the third attempt is re-raised; and an
\* attempt that succeeds ends the retries and returns its text.
C30_TranscribeRetriesBounded ==
    /\ RetryRule(call)
    /\ call.pc = "transcribe" =>
          /\ Len(call.errors) = call.attempts
          /\ call.attempts < max_retries
          /\ \A n \in 1..Len(call.errors) : call.errors[n] \in Retryable
    /\ \A k \in 1..Len(done) : RetryRule(done[k])
    /\ \A k \in Calls("transcribe") :
          LET c == done[k] IN
          IF c.result.kind = "raised"
          THEN /\ c.errors # <<>>
               /\ c.result.error = c.errors[Len(c.errors)]
               /\ c.result.error \in Retryable => Len(c.errors) = max_retries
               /\ c.result.error \notin Retryable \cup {"ValueError"} =>
                     c.sent.transcribe = Len(c.errors)
          ELSE /\ c.result.kind = "returned"
               /\ Len(c.errors) < max_retries
               /\ \A n \in 1..Len(c.errors) : c.errors[n] \in Retryable
               /\ c.sent.transcribe \in {Len(c.errors), Len(c.errors) + 1}

\* C30 witness: a call of transcribe_audio has returned a text from its third
\* request, after an APIConnectionError and a RateLimitError.
C30_Witness ==
    \E k \in Calls("transcribe") :
        /\ done[k].result.kind = "returned"
        /\ done[k].sent.transcribe = max_retries
        /\ done[k].errors = <<"APIConnectionError", "RateLimitError">>


\* ------------------------------------------------------------------ C36
\* the profile adjust_sensitivity installs under the name of a mode
ProfileNamed(mode) ==
    ProfileOf(CHOOSE key \in SensitivityKeys : ProfileOf(key).sensitivity_mode = mode)

\* C36: whenever no call of adjust_sensitivity is in progress, the thresholds
\* in force (silence_threshold, min_speech_chunks, max_recording_duration,
\* speech_timeout, VAD level) are those of the profile named by
\* sensitivity_mode, the mode by which process_audio looks up its amplitude
\* floor; this from start-up with any configured sensitivity mode.
C36_ThresholdsOfNamedProfile ==
    ui.pc = 0 =>
        LET p == ProfileNamed(sensitivity_mode) IN
        /\ silence_threshold = p.silence_threshold
        /\ min_speech_chunks = p.min_speech_chunks
        /\ max_recording_duration = p.max_recording_duration
        /\ speech_timeout = p.speech_timeout
        /\ vad_level = p.vad_level

Paused == ~is_recording /\ capture # "read"

\* the buffer and counters of process_audio, the frames read and the closes
Segmentation ==
    <<frames, silent_chunks, speech_chunks, recording_chunks, framesRead,
      threads, lastClose>>

\* the frames of a buffer were read one after the other
Consecutive(buf) == \A k \in 1..(Len(buf) - 1) : buf[k + 1] = buf[k] + 1

\* C39 as stated: while is_recording is False process_audio reads no frame,
\* emits nothing and leaves its buffer and counters unchanged.
C39_PausedReadsNoFrame ==
    [][~is_recording => UNCHANGED Segmentation]_vars

\* C39: once the iteration that was waiting in stream.read when the space key
\* was handled has completed, a paused process_audio reads no frame, emits
\* nothing and leaves its buffer and counters unchanged; pausing and resuming
\* themselves neither emit nor discard the utterance being recorded; and
\* every emitted buffer holds consecutive frames, those read before a pause
\* together with those read after the resume.
C39_PauseHoldsUtterance ==
    /\ [](\A i \in Emitted : Consecutive(threads[i].audio))
    /\ [][/\ Paused => UNCHANGED Segmentation
          /\ is_recording' # is_recording => UNCHANGED Segmentation]_vars

\* recording was paused and resumed inside an utterance, which was then emitted
\* with frames of both sides of the pause
C39_Witness ==
    /\ is_recording
    /\ ui.key = " "
    /\ ui.presses = 2
    /\ \E i \in Emitted :
         \E a, b \in FramesOf(threads[i].audio) : a < ui.at /\ b > ui.at


\* ------------------------------------------------------------------ C31
\* the keys of a cache
KeysOf(entries) == {entries[j].key : j \in 1..Len(entries)}

\* the entries of a cache
EntriesOf(entries) == {entries[j] : j \in 1..Len(entries)}

\* the earliest timestamp of a cache
Oldest(entries) ==
    LET stamps == {entries[j].timestamp : j \in 1..Len(entries)} IN
    CHOOSE t \in stamps : \A u \in stamps : t <= u

\* a store of key at time has turned the cache old into the cache new: the
\* entry just stored is there with the time of the store, the size is the
\* smaller of 1000 and the number of keys, no removed entry has a later
\* timestamp than an entry that was kept, and the entries kept are unchanged
StoredInto(old, new, key, time) ==
    \A before \in {KeysOf(old) \cup {key}}, kept \in {KeysOf(new)},
       entries \in {EntriesOf(new)}, oldest \in {Oldest(new)} :
        /\ \E e \in entries : e.key = key /\ e.timestamp = time
        /\ Len(new) = IF Cardinality(before) > cache_limit
                      THEN cache_limit
                      ELSE Cardinality(before)
        /\ \A j \in 1..Len(old) :
               IF old[j].key \in kept
               THEN old[j].key # key => old[j] \in entries
               ELSE old[j].timestamp <= oldest

C32_LookupHonoursTtl ==
    /\ [](cacheLog.last.op = "lookup" /\ cacheLog.last.returned # "None" =>
              cacheLog.last.found /\ cacheLog.last.age < cache_ttl)
    /\ [][cacheLog'.lookups # cacheLog.lookups =>
            LET l == cacheLog'.last
                hits == svcStats'[l.service].cache_hits
                            - svcStats[l.service].cache_hits
                misses == svcStats'[l.service].cache_misses
                              - svcStats[l.service].cache_misses
            IN
            IF svcConfig.enable_translation_cache
            THEN /\ <<hits, misses>> \in {<<1, 0>>, <<0, 1>>}
                 /\ hits = 1 <=> l.returned # "None"
                 /\ l.found /\ l.age >= cache_ttl =>
                        /\ misses = 1
                        /\ IndexOf(caches'[l.service], l.key) = 0
                 /\ \A s \in Services \ {l.service} : svcStats'[s] = svcStats[s]
            ELSE /\ l.returned = "None"
                 /\ svcStats' = svcStats
                 /\ caches' = caches]_vars

\* a lookup found an entry at the age of cache_ttl, removed it and missed
C32_Witness ==
    /\ cacheLog.last.op = "lookup"
    /\ cacheLog.last.found
    /\ cacheLog.last.age = cache_ttl
    /\ cacheLog.last.returned = "None"
    /\ IndexOf(caches[cacheLog.last.service], cacheLog.last.key) = 0
    /\ svcStats[cacheLog.last.service].cache_misses > 0


\* ------------------------------------------------------------------ C38
\* C38: the audio handed to process_audio_chunk for an utterance holds every
\* speech chunk received since the previous utterance was closed and starts
\* with the first of them; and the speech chunks counted to start a recording
\* were received one after the other.
C38_BufferHoldsAllSpeech ==
    \A n \in 1..Len(rtLog.calls) :
        LET c == rtLog.calls[n] IN
        /\ FramesOf(c.spoken) \subseteq FramesOf(c.full_audio)
        /\ c.spoken # <<>> => c.full_audio[1] = c.spoken[1]
        /\ Consecutive(c.counted)


\* ------------------------------------------------------------------ C33
\* C33: a connected client that has stopped answering pings is eventually
\* removed from active_connections; a heartbeat check that reads an age of
\* more than two heartbeat intervals removes the client from
\* active_connections and connection_metadata and ends the monitor, a check
\* that reads less leaves the client connected; and the handling of a pong
\* sets the heartbeat age to zero.
C33_SilentClientDisconnected ==
    /\ \A c \in Clients :
           (c \in active_connections /\ ~conn[c].answers) ~> (c \notin active_connections)
    /\ [][\A c \in Clients :
            /\ HeartbeatCheck(c) /\ conn'[c].seen # -1 =>
                   IF conn'[c].seen > 2 * websocket_heartbeat_interval
                   THEN /\ c \notin active_connections'
                        /\ ~connection_metadata'[c].present
                        /\ conn'[c].monitor = "done"
                   ELSE /\ c \in active_connections' <=> c \in active_connections
                        /\ connection_metadata'[c].present
            /\ Receive(c, "pong") /\ connection_metadata[c].present =>
                   connection_metadata'[c].heartbeat_age = 0]_vars

\* a client that stopped answering was removed by the check that read an age
\* of more than two intervals, and its monitor has ended
C33_Witness ==
    \E c \in Clients :
        /\ ~conn[c].answers
        /\ conn[c].dropped = "heartbeat timeout"
        /\ conn[c].seen > 2 * websocket_heartbeat_interval
        /\ conn[c].monitor = "done"
        /\ c \notin active_connections

\* ------------------------------------------------------------------ C34
\* the client ids that have an entry in connection_metadata
MetadataKeys == {c \in Clients : connection_metadata[c].present}

\* C34: stats['active_connections'] is the number of entries of
\* active_connections and is never negative, and active_connections and
\* connection_metadata have the same keys.
C34_ConnectionCountMatches ==
    /\ stream_stats.active_connections = Cardinality(active_connections)
    /\ stream_stats.active_connections >= 0
    /\ MetadataKeys = active_connections

\* ------------------------------------------------------------------ C35
\* C35: once the service has disconnected a client, by a heartbeat timeout or
\* after a failed send, no message of that client causes a provider call.
C35_NoCallsAfterDisconnect ==
    [][\A c \in Clients :
          conn[c].dropped # "no" => conn'[c].requests = conn[c].requests]_vars

====
